---- MODULE Spec2Model ----
(***************************************************************************)
(* Model of the memory core of smart-memory-mcp: the token-budget context  *)
(* optimizer (storage/context/optimizer.rs), the MemoryStore with its      *)
(* cache and Repository (storage/memory.rs, storage/db/repository.rs), the *)
(* relevance scorer (storage/context/relevance.rs), the Tokenizer          *)
(* (storage/tokenizer.rs), the MemoryBankConfig                            *)
(* (storage/memory_bank_config.rs), and of the BackupManager               *)
(* (storage/backup.rs), the CrashRecoveryManager (crash_recovery.rs) and   *)
(* the shutdown of main (main.rs, parent_process_monitor.rs).              *)
(*                                                                         *)
(* The specifications of the module:                                       *)
(*   SpecOpt  - optimize applied to every input list within the bounds     *)
(*   Spec     - sequences of MemoryStore operations on one store, with the *)
(*              log of what store returned                                 *)
(*   SpecSeen - store, retrieve and reopen, with the access times that     *)
(*              retrieve returned                                          *)
(*   SpecConc - threads calling one MemoryStore, one lock acquisition or   *)
(*              locked operation per step                                  *)
(*   SpecCtx  - score_memories, get_context and get_memory_bank_context    *)
(*              applied to every corpus and request within the bounds      *)
(*   SpecTok  - Tokenizer::new and count_tokens for every state of the     *)
(*              model files                                                *)
(*   SpecCfg  - new_with_config on every configuration file, then the      *)
(*              accessors of the configuration                             *)
(*   SpecBak  - create_backup, restore_backup and list_backups on one      *)
(*              database file, with a clock in whole seconds               *)
(*   SpecCr   - record_crash, record_recovery_attempt, perform_recovery    *)
(*              and reset_crash_count from a fresh recovery state          *)
(*   SpecConcFair - the calls of SpecConc at one reading of the clock,     *)
(*              every thread running on                                    *)
(*   SpecAsm  - get_context and get_memory_bank_context served from one    *)
(*              store, between stores and restarts                         *)
(*   SpecMain - main from the start of the parent process monitor to its   *)
(*              return, with the monitor thread                            *)
(* Each specification leaves the variables of the others at their idle     *)
(* values.  Token counts stay far below usize::MAX, so TokenCount addition *)
(* is plain integer addition here.                                         *)
(***************************************************************************)
EXTENDS Integers, Sequences, FiniteSets, TLC

VARIABLES
    \* ---- optimizer (SpecOpt) ----
    opt_in,      \* scored_memories: the input slice
    opt_max,     \* max_tokens
    opt_thr,     \* relevance_threshold
    opt_out,     \* the returned Vec<ScoredMemory>
    opt_pc,      \* "ready" before the call, "done" after it returned
    \* ---- MemoryStore (Spec) ----
    backend,     \* "memory" (InMemoryRepository) or "sqlite" (SqliteMemoryRepository)
    repo,        \* the Repository: id -> Memory (sqlite: row) or None
    cache,       \* MemoryStore.cache: id -> Memory or None
    now,         \* the wall clock read by chrono::Utc::now()
    log,         \* the memories returned by successful store calls, in call order
    last,        \* the last MemoryStore call and what it returned
    seen,        \* for one id, the latest last_accessed returned by earlier retrieves
    \* ---- MemoryStore shared by threads (SpecConc) ----
    pc,          \* thread -> where the thread is in its MemoryStore call
    loc,         \* thread -> the call's arguments, locals and result
    cache_lock,  \* the thread holding MemoryStore.cache's Mutex, 0 when free
    repo_lock,   \* the thread holding the Repository's Mutex, 0 when free
    started,     \* the memories of the store calls that have started
    done,        \* the memories of the store calls that have returned Ok
    \* ---- relevance scoring and context assembly (SpecCtx) ----
    ctx_mem,     \* the memories given to the scorer, in the order given
    ctx_req,     \* the call: operation, mode, query, budget, threshold, filters
    ctx_out,     \* what the call returned
    ctx_pc,      \* "ready" before the call, "done" after it returned
    \* ---- Tokenizer (SpecTok) ----
    tok_in,      \* the tokenizer type asked for, the text, the model files found
    tok_fs,      \* the files under models/ now
    tok,         \* what Tokenizer::new returned
    tok_out,     \* what count_tokens returned
    tok_pc,      \* "ready", "built" after Tokenizer::new, "done" after count_tokens
    \* ---- MemoryBankConfig (SpecCfg) ----
    cfg_file,    \* the file at config_path
    cfg_env,     \* whether config_path can be written and the database opened
    cfg,         \* what new_with_config returned
    cfg_out,     \* the last accessor call and what it returned
    cfg_pc,      \* "ready" before new_with_config, "built" after it
    \* ---- BackupManager (SpecBak) ----
    bak_dir,     \* the backup directory: timestamp -> backup file and metadata
    bak_target,  \* the content of the database file, None when it is missing
    bak_now,     \* SystemTime::now() in whole seconds
    bak_max,     \* BackupManager.max_backups
    bak_made,    \* the backups that create_backup returned, with their sources
    bak_last,    \* the last BackupManager call and what it returned
    \* ---- CrashRecoveryManager (SpecCr) ----
    cr_state,    \* CrashRecoveryManager.state
    cr_file,     \* the state saved in recovery.json, None when there is none
    cr_last,     \* the last CrashRecoveryManager call and what it returned
    cr_max,      \* CrashRecoveryManager.max_recovery_attempts
    cr_tried,    \* recoveries attempted since the last reset_crash_count
    \* ---- main and the parent process monitor (SpecMain) ----
    m_pc,        \* where main is: "start", "select", "wait", "join", "returned"
    m_exit,      \* what main returned: "ok" or "err", "none" before
    m_state,     \* the last server state main passed to the recovery manager
    m_pid,       \* where the parent's pid comes from: VSCODE_PID, vscode.pid
    m_mon,       \* the monitor thread: "none", "sleep", "check", "done"
    m_parent,    \* whether the monitored parent process is running
    m_sig,       \* the interrupt signal: "none", "pending", "handled"
    SHUTDOWN_REQUESTED,   \* the static flag of parent_process_monitor.rs
    shutdown_requested    \* the flag main shares with the select branches

optVars   == <<opt_in, opt_max, opt_thr, opt_out, opt_pc>>
storeVars == <<backend, repo, cache, now, log, last, seen>>
concVars  == <<pc, loc, cache_lock, repo_lock, started, done>>
ctxVars   == <<ctx_mem, ctx_req, ctx_out, ctx_pc>>
tokVars   == <<tok_in, tok_fs, tok, tok_out, tok_pc>>
cfgVars   == <<cfg_file, cfg_env, cfg, cfg_out, cfg_pc>>
bakVars   == <<bak_dir, bak_target, bak_now, bak_max, bak_made, bak_last>>
crVars    == <<cr_state, cr_file, cr_last, cr_max, cr_tried>>
mainVars  == <<m_pc, m_exit, m_state, m_pid, m_mon, m_parent, m_sig,
               SHUTDOWN_REQUESTED, shutdown_requested>>
auxVars   == <<ctxVars, tokVars, cfgVars, bakVars, crVars, mainVars>>
vars      == <<opt_in, opt_max, opt_thr, opt_out, opt_pc,
               backend, repo, cache, now, log, last, seen,
               pc, loc, cache_lock, repo_lock, started, done,
               ctx_mem, ctx_req, ctx_out, ctx_pc,
               tok_in, tok_fs, tok, tok_out, tok_pc,
               cfg_file, cfg_env, cfg, cfg_out, cfg_pc,
               bak_dir, bak_target, bak_now, bak_max, bak_made, bak_last,
               cr_state, cr_file, cr_last, cr_max, cr_tried,
               m_pc, m_exit, m_state, m_pid, m_mon, m_parent, m_sig,
               SHUTDOWN_REQUESTED, shutdown_requested>>

CtxIdle ==
    /\ ctx_mem = <<>>
    /\ ctx_req = <<>>
    /\ ctx_out = <<>>
    /\ ctx_pc = "idle"

TokIdle ==
    /\ tok_in = <<>>
    /\ tok_fs = <<>>
    /\ tok = <<>>
    /\ tok_out = <<>>
    /\ tok_pc = "idle"

CfgIdle ==
    /\ cfg_file = <<>>
    /\ cfg_env = <<>>
    /\ cfg = <<>>
    /\ cfg_out = <<>>
    /\ cfg_pc = "idle"

BakIdle ==
    /\ bak_dir = <<>>
    /\ bak_target = <<>>
    /\ bak_now = 0
    /\ bak_max = 0
    /\ bak_made = <<>>
    /\ bak_last = <<>>

CrIdle ==
    /\ cr_state = <<>>
    /\ cr_file = <<>>
    /\ cr_last = <<>>
    /\ cr_max = 0
    /\ cr_tried = 0

MainIdle ==
    /\ m_pc = "idle"
    /\ m_exit = "none"
    /\ m_state = ""
    /\ m_pid = "none"
    /\ m_mon = "none"
    /\ m_parent = FALSE
    /\ m_sig = "none"
    /\ SHUTDOWN_REQUESTED = FALSE
    /\ shutdown_requested = FALSE

AuxIdle == CtxIdle /\ TokIdle /\ CfgIdle /\ BakIdle /\ CrIdle /\ MainIdle

\* ------------------------------------------------------------------------
\* Bounds of the model
\* ------------------------------------------------------------------------
MaxLen    == 3   \* longest scored_memories list
MaxTok    == 2   \* largest token_count of one memory given to optimize
MaxBudget == 3   \* largest max_tokens
MaxScore  == 2   \* scores and thresholds are k / MaxScore, k in 0..MaxScore
NumIds    == 2   \* size of the space MemoryId::new draws from
MaxStores == 2   \* successful store calls in one behaviour
MaxClock  == 1   \* last value of the clock
NumThreads == 2  \* threads sharing one MemoryStore
MaxDocs   == 3   \* most memories given to the scorer

None == [none |-> TRUE]

\* ------------------------------------------------------------------------
\* ContextOptimizer
\* ------------------------------------------------------------------------
\* A ScoredMemory: the memory (its id and token_count) and its score.
\* The id of the k-th input memory is k, so clones are recognisable.
ScoredMemory == [id : 1..MaxLen, token_count : 0..MaxTok, score : 0..MaxScore]

Range(s) == { s[k] : k \in DOMAIN s }

RECURSIVE SumTokens(_)
SumTokens(s) == IF s = <<>> THEN 0 ELSE s[1].token_count + SumTokens(Tail(s))

\* optimizer.rs:48  memory.score.as_f64() < relevance_threshold.as_f64()
BelowThreshold_none(score, thr) == FALSE
BelowThreshold(score, thr) == score < thr

\* optimizer.rs:53-54  new_total = total_tokens + token_count; new_total > max_tokens
ExceedsBudget_own(total, tc, max) == tc > max
ExceedsBudget(total, tc, max) == total + tc > max

\* optimizer.rs:56  !optimized_memories.is_empty()
AlreadyAdded_always(out) == TRUE
AlreadyAdded_never(out) == FALSE
AlreadyAdded(out) == out # <<>>

RECURSIVE optimize_loop(_, _, _, _, _, _)

\* optimizer.rs:57  break: the loop ends and the accepted memories are returned
BudgetStop_continue(scored, i, out, total, max, thr) ==
    optimize_loop(scored, i + 1, out, total, max, thr)
BudgetStop(scored, i, out, total, max, thr) == out

\* optimizer.rs:46-69  the body of the for loop, from the i-th memory on
optimize_loop(scored, i, out, total, max, thr) ==
    IF i > Len(scored) THEN out
    ELSE LET memory == scored[i] IN
         IF BelowThreshold(memory.score, thr)
         THEN optimize_loop(scored, i + 1, out, total, max, thr)
         ELSE IF ExceedsBudget(total, memory.token_count, max) /\ AlreadyAdded(out)
         THEN BudgetStop(scored, i, out, total, max, thr)
         ELSE optimize_loop(scored, i + 1, Append(out, memory),
                            total + memory.token_count, max, thr)

\* optimizer.rs:36-72  TokenBudgetOptimizer::optimize
optimize(scored_memories, max_tokens, relevance_threshold) ==
    optimize_loop(scored_memories, 1, <<>>, 0, max_tokens, relevance_threshold)

\* The input lists: every list of at most MaxLen memories, the k-th with id k.
InputLists ==
    UNION { { s \in [1..n -> ScoredMemory] : \A k \in 1..n : s[k].id = k } : n \in 0..MaxLen }

\* The threshold-eligible subsequence of the input, in input order.
Eligible(scored, thr) == SelectSeq(scored, LAMBDA m : m.score >= thr)

ConcIdle ==
    /\ pc = <<>>
    /\ loc = <<>>
    /\ cache_lock = 0
    /\ repo_lock = 0
    /\ started = {}
    /\ done = {}

StoreIdle ==
    /\ backend = "memory"
    /\ repo = <<>>
    /\ cache = <<>>
    /\ now = 0
    /\ log = <<>>
    /\ last = None
    /\ seen = None
    /\ ConcIdle

InitOpt ==
    /\ opt_in \in InputLists
    /\ opt_max \in 0..MaxBudget
    /\ opt_thr \in 0..MaxScore
    /\ opt_out = <<>>
    /\ opt_pc = "ready"
    /\ StoreIdle
    /\ AuxIdle

Optimize ==
    /\ opt_pc = "ready"
    /\ opt_out' = optimize(opt_in, opt_max, opt_thr)
    /\ opt_pc' = "done"
    /\ UNCHANGED <<opt_in, opt_max, opt_thr>>
    /\ UNCHANGED <<storeVars, concVars, auxVars>>

NextOpt == Optimize

SpecOpt == InitOpt /\ [][NextOpt]_vars

\* ------------------------------------------------------------------------
\* Tokenizer, Memory
\* ------------------------------------------------------------------------
\* memory.rs:134-141  the arguments of store in the model.  Texts are
\* sequences of characters, an Option is a sequence of at most one value,
\* the metadata map is its set of (key, value) pairs.
StoreArgs ==
    { [content |-> <<"a">>, content_type |-> "text/plain",
       category |-> <<"context">>, mode |-> <<"code">>,
       metadata |-> {<<"language", "rust">>}],
      [content |-> <<"a", " ", "b">>, content_type |-> "text/markdown",
       category |-> <<>>, mode |-> <<>>, metadata |-> {}] }

Contents == { a.content : a \in StoreArgs }

IsWhitespace(c) == c = " "

\* str::split_whitespace().count(): the number of maximal runs of
\* non-whitespace characters.
RECURSIVE split_whitespace_count(_, _)
split_whitespace_count(text, in_word) ==
    IF text = <<>> THEN 0
    ELSE IF IsWhitespace(Head(text)) THEN split_whitespace_count(Tail(text), FALSE)
    ELSE (IF in_word THEN 0 ELSE 1) + split_whitespace_count(Tail(text), TRUE)

\* tokenizer.rs:160-166  Tokenizer::count_tokens, TokenizerType::Simple
count_tokens(text) == split_whitespace_count(text, FALSE)

\* memory.rs:18-20  MemoryId::new: "mem_" and the first 8 hex digits of a
\* random UUID, drawn without looking at the ids in use.
MemoryIds == 1..NumIds

\* memory.rs:65-88  Memory::new.  created_at, which Memory::new sets to the
\* same instant as last_accessed and nothing writes afterwards, is left out
\* of the record.
Memory_new(id, args, t) ==
    [id |-> id, content |-> args.content, content_type |-> args.content_type,
     category |-> args.category, mode |-> args.mode, metadata |-> args.metadata,
     token_count |-> count_tokens(args.content),
     last_accessed |-> t]

\* memory.rs:91-93  Memory::touch
Memory_touch_recount(memory, t) ==
    [memory EXCEPT !.last_accessed = t, !.token_count = Len(memory.content)]
Memory_touch(memory, t) == [memory EXCEPT !.last_accessed = t]

Empty == [id \in MemoryIds |-> None]

\* ------------------------------------------------------------------------
\* Repository (InMemoryRepository and SqliteMemoryRepository)
\* ------------------------------------------------------------------------
\* The InMemoryRepository holds Memory values; the SqliteMemoryRepository
\* holds rows of the memories table.

\* chrono to_rfc3339 / parse_from_rfc3339: the text keeps the instant to the
\* nanosecond.
to_rfc3339(t) == [rfc3339 |-> t]
parse_from_rfc3339(text) == text.rfc3339

\* serde_json::to_string / from_str of the metadata map
metadata_to_json(metadata) == [json |-> metadata]
metadata_from_json(text) == text.json

\* repository.rs:75-91, 121-131  memory_to_entity and the bound parameters
memory_to_row(memory) ==
    [id |-> memory.id, content |-> memory.content,
     content_type |-> memory.content_type,
     category |-> memory.category, mode |-> memory.mode,
     metadata_json |-> metadata_to_json(memory.metadata),
     token_count |-> memory.token_count,
     last_accessed |-> to_rfc3339(memory.last_accessed)]

\* repository.rs:94-109, 148-164  the row read back and entity_to_memory
row_to_memory_recount(row) ==
    [id |-> row.id, content |-> row.content,
     content_type |-> row.content_type,
     category |-> row.category, mode |-> row.mode,
     metadata |-> metadata_from_json(row.metadata_json),
     token_count |-> Len(row.content),
     last_accessed |-> parse_from_rfc3339(row.last_accessed)]
row_to_memory(row) ==
    [id |-> row.id, content |-> row.content,
     content_type |-> row.content_type,
     category |-> row.category, mode |-> row.mode,
     metadata |-> metadata_from_json(row.metadata_json),
     token_count |-> row.token_count,
     last_accessed |-> parse_from_rfc3339(row.last_accessed)]

\* memory.rs:214-218 memories.insert / repository.rs:113-135 INSERT OR REPLACE
Repository_store_keep(r, memory) ==
    IF r[memory.id] # None THEN r
    ELSE [r EXCEPT ![memory.id] =
            IF backend = "sqlite" THEN memory_to_row(memory) ELSE memory]
Repository_store(r, memory) ==
    [r EXCEPT ![memory.id] =
        IF backend = "sqlite" THEN memory_to_row(memory) ELSE memory]

\* memory.rs:220-223 / repository.rs:137-169
Repository_retrieve_default(r, id) ==
    IF r[id] = None THEN Memory_new(id, CHOOSE a \in StoreArgs : TRUE, 0)
    ELSE IF backend = "sqlite" THEN row_to_memory(r[id]) ELSE r[id]
Repository_retrieve(r, id) ==
    IF r[id] = None THEN None
    ELSE IF backend = "sqlite" THEN row_to_memory(r[id]) ELSE r[id]

\* memory.rs:225-231 / repository.rs:171-181 UPDATE ... SET last_accessed
Repository_touch_skip(r, id, t) == r
Repository_touch_all(r, id, t) ==
    [j \in MemoryIds |->
        IF r[j] = None THEN r[j]
        ELSE IF backend = "sqlite"
             THEN [r[j] EXCEPT !.last_accessed = to_rfc3339(t)]
             ELSE Memory_touch(r[j], t)]
Repository_touch(r, id, t) ==
    IF r[id] = None THEN r
    ELSE IF backend = "sqlite"
         THEN [r EXCEPT ![id].last_accessed = to_rfc3339(t)]
         ELSE [r EXCEPT ![id] = Memory_touch(r[id], t)]

\* memory.rs:233-236 / repository.rs:183-197  the ids, in no particular order
Repository_get_all_ids(r) == { id \in MemoryIds : r[id] # None }

RECURSIVE SumOver(_, _)
SumOver(f, S) ==
    IF S = {} THEN 0
    ELSE LET x == CHOOSE y \in S : TRUE IN f[x] + SumOver(f, S \ {x})

\* memory.rs:238-241 values().map(token_count).sum() / repository.rs:199-208
\* SELECT SUM(token_count), NULL (no rows) read as 0
Repository_total_tokens(r) ==
    SumOver([id \in MemoryIds |-> IF r[id] = None THEN 0 ELSE r[id].token_count], MemoryIds)

\* Only the SQL-backed Repository can fail (disk, SQL); the map cannot.
Outcomes == IF backend = "sqlite" THEN {"ok", "err"} ELSE {"ok"}

\* repository.rs:199-208  total_tokens fails at prepare (returned with ?) or
\* at query_row (unwrap_or(0): the failure is read as a total of 0).
TotalOutcomes == IF backend = "sqlite" THEN {"ok", "err_prepare", "err_query"} ELSE {"ok"}

\* The later clock readings of a call that started at `now`.
Later == { t \in now..(now + 1) : t <= MaxClock }

\* ------------------------------------------------------------------------
\* MemoryStore
\* ------------------------------------------------------------------------
\* The record of a call: what was called with which id, whether it returned
\* Ok, the value returned, whether the cache held the id, the clock when a
\* retrieve started, and whether the Repository hit a storage failure.
Call(op, id, ok, ret, hit, t0, fault) ==
    [op |-> op, id |-> id, ok |-> ok, ret |-> ret, hit |-> hit, t0 |-> t0,
     fault |-> fault]

\* A retrieve that returned Ok(Some(memory)).
Found(c) == c.op = "retrieve" /\ c.ok /\ c.ret # None

\* seen follows one id, any of them: seen.at is the latest last_accessed
\* that retrieve has returned for seen.id, over the calls before the last
\* one (-1: none yet).
SeenAfter(s, c) ==
    IF Found(c) /\ c.id = s.id /\ c.ret.last_accessed > s.at
    THEN [s EXCEPT !.at = c.ret.last_accessed]
    ELSE s

\* What a caller keeps of a memory that store returned.
Returned(memory) ==
    [id |-> memory.id, content |-> memory.content, token_count |-> memory.token_count]

\* memory.rs:147-149, 174-175  cache.insert(memory.id, memory)
CacheInsert(c, memory) == [c EXCEPT ![memory.id] = memory]

\* memory.rs:145-149  repository.store(&memory)? returns the error before
\* the cache is locked; after a successful write the memory is inserted
StoreCache_always(c, memory, res) == CacheInsert(c, memory)
StoreCache(c, memory, res) ==
    IF res = "err" THEN c ELSE CacheInsert(c, memory)

\* memory.rs:134-152  MemoryStore::store
Store_call ==
    /\ \E args \in StoreArgs, id \in MemoryIds, res \in Outcomes :
          LET memory == Memory_new(id, args, now) IN
          IF res = "err"
          THEN /\ last' = Call("store", id, FALSE, None, FALSE, 0, TRUE)
               /\ repo' = repo
               /\ cache' = StoreCache(cache, memory, res)
          ELSE /\ repo' = Repository_store(repo, memory)
               /\ cache' = StoreCache(cache, memory, res)
               /\ last' = Call("store", id, TRUE, memory, FALSE, 0, FALSE)
    /\ UNCHANGED <<backend, now>>
    /\ UNCHANGED <<optVars, concVars, auxVars>>

\* memory.rs:157-168  the cache holds the id: touch the cached entry, then
\* the Repository, and return a copy of the cached entry
RetrieveHit(id) ==
    /\ cache[id] # None
    /\ \E t2 \in Later, res \in Outcomes :
          LET touched == Memory_touch(cache[id], now) IN
          /\ cache' = [cache EXCEPT ![id] = touched]
          /\ now' = t2
          /\ IF res = "err"
             THEN /\ repo' = repo
                  /\ last' = Call("retrieve", id, FALSE, None, TRUE, now, TRUE)
             ELSE /\ repo' = Repository_touch(repo, id, t2)
                  /\ last' = Call("retrieve", id, TRUE, touched, TRUE, now, FALSE)
    /\ UNCHANGED backend
    /\ UNCHANGED <<optVars, concVars, auxVars>>

\* memory.rs:170-180  cache miss: read the Repository, insert what was found
RetrieveMiss(id) ==
    /\ cache[id] = None
    /\ \E res \in Outcomes :
          LET found == Repository_retrieve(repo, id) IN
          IF res = "err"
          THEN /\ last' = Call("retrieve", id, FALSE, None, FALSE, now, TRUE)
               /\ cache' = cache
          ELSE /\ last' = Call("retrieve", id, TRUE, found, FALSE, now, FALSE)
               /\ cache' = IF found # None THEN CacheInsert(cache, found) ELSE cache
    /\ UNCHANGED <<backend, repo, now>>
    /\ UNCHANGED <<optVars, concVars, auxVars>>

\* memory.rs:155-181  MemoryStore::retrieve
Retrieve_call == \E id \in MemoryIds : RetrieveHit(id) \/ RetrieveMiss(id)

\* memory.rs:184-186  MemoryStore::get_all_ids
GetAllIds_call ==
    /\ \E res \in Outcomes :
          last' = IF res = "err"
                  THEN Call("get_all_ids", 0, FALSE, {}, FALSE, 0, TRUE)
                  ELSE Call("get_all_ids", 0, TRUE, Repository_get_all_ids(repo), FALSE, 0, FALSE)
    /\ UNCHANGED <<backend, repo, cache, now>>
    /\ UNCHANGED <<optVars, concVars, auxVars>>

\* memory.rs:189-191  MemoryStore::total_tokens
TotalTokens_call ==
    /\ \E res \in TotalOutcomes :
          last' = IF res = "err_prepare" THEN Call("total_tokens", 0, FALSE, 0, FALSE, 0, TRUE)
                  ELSE IF res = "err_query" THEN Call("total_tokens", 0, TRUE, 0, FALSE, 0, TRUE)
                  ELSE Call("total_tokens", 0, TRUE, Repository_total_tokens(repo), FALSE, 0, FALSE)
    /\ UNCHANGED <<backend, repo, cache, now>>
    /\ UNCHANGED <<optVars, concVars, auxVars>>

\* memory.rs:121-131  MemoryStore::new_sqlite on the backing file of an
\* earlier store: the records are kept, the cache starts empty
Reopen_call ==
    /\ backend = "sqlite"
    /\ cache' = Empty
    /\ last' = Call("reopen", 0, TRUE, None, FALSE, 0, FALSE)
    /\ UNCHANGED <<backend, repo, now>>
    /\ UNCHANGED <<optVars, concVars, auxVars>>

\* Time passes between calls.
Tick_step ==
    /\ now < MaxClock
    /\ now' = now + 1
    /\ UNCHANGED <<backend, repo, cache, last>>
    /\ UNCHANGED <<optVars, concVars, auxVars>>

\* The memories store has returned so far, after call c returned.
LogAfter(l, c) ==
    IF c.op = "store" /\ c.ok THEN Append(l, Returned(c.ret)) ELSE l

\* Spec records what store returned.
KeepLog == log' = LogAfter(log, last') /\ seen' = seen

Store       == Len(log) < MaxStores /\ Store_call /\ KeepLog
Retrieve    == Retrieve_call /\ KeepLog
GetAllIds   == GetAllIds_call /\ KeepLog
TotalTokens == TotalTokens_call /\ KeepLog
Reopen      == Reopen_call /\ KeepLog
Tick        == Tick_step /\ UNCHANGED <<log, seen>>

\* SpecSeen records what retrieve returned.
KeepSeen == seen' = SeenAfter(seen, last) /\ log' = log

StoreS    == Store_call /\ KeepSeen
RetrieveS == Retrieve_call /\ KeepSeen
ReopenS   == Reopen_call /\ KeepSeen
TickS     == Tick_step /\ UNCHANGED <<log, seen>>

OptIdle ==
    /\ opt_in = <<>>
    /\ opt_max = 0
    /\ opt_thr = 0
    /\ opt_out = <<>>
    /\ opt_pc = "idle"

\* memory.rs:109-131  new_in_memory / new_sqlite on a fresh backing file
Init ==
    /\ backend \in {"memory", "sqlite"}
    /\ repo = Empty
    /\ cache = Empty
    /\ now = 0
    /\ log = <<>>
    /\ last = Call("new", 0, TRUE, None, FALSE, 0, FALSE)
    /\ seen = None
    /\ OptIdle
    /\ ConcIdle
    /\ AuxIdle

\* The same, following the retrieves of one id.
InitSeen ==
    /\ backend \in {"memory", "sqlite"}
    /\ repo = Empty
    /\ cache = Empty
    /\ now = 0
    /\ log = <<>>
    /\ last = Call("new", 0, TRUE, None, FALSE, 0, FALSE)
    /\ seen \in [id : MemoryIds, at : {-1}]
    /\ OptIdle
    /\ ConcIdle
    /\ AuxIdle

Next ==
    \/ Store
    \/ Retrieve
    \/ GetAllIds
    \/ TotalTokens
    \/ Reopen
    \/ Tick

Spec == Init /\ [][Next]_vars

NextSeen ==
    \/ StoreS
    \/ RetrieveS
    \/ ReopenS
    \/ TickS

SpecSeen == InitSeen /\ [][NextSeen]_vars

\* ------------------------------------------------------------------------
\* MemoryStore shared by threads (Arc<MemoryStore>): each call advances one
\* lock acquisition or one locked map / SQL operation at a time
\* ------------------------------------------------------------------------
Threads == 1..NumThreads

Idle == [op |-> "none"]

\* Mutex::lock blocks until the lock is free.
Acquire(lock, t) == lock = 0

\* The thread's call returned r; the locals are dropped.
Return(t, op, id, known, ok, ret) ==
    /\ pc' = [pc EXCEPT ![t] = "returned"]
    /\ loc' = [loc EXCEPT ![t] =
                 [op |-> op, id |-> id, known |-> known, ok |-> ok, ret |-> ret]]

Goto(t, label) == pc' = [pc EXCEPT ![t] = label]

\* memory.rs:134-142  store: Memory::new(id, content, ...) with a new id
StoreBegin(t) ==
    /\ pc[t] = "idle"
    /\ Cardinality(started) < MaxStores
    /\ \E args \in StoreArgs, id \in MemoryIds :
          LET memory == Memory_new(id, args, now) IN
          /\ loc' = [loc EXCEPT ![t] = [op |-> "store", memory |-> memory]]
          /\ started' = started \cup {Returned(memory)}
    /\ Goto(t, "store_repo_lock")
    /\ UNCHANGED <<backend, repo, cache, now, cache_lock, repo_lock, done>>

\* memory.rs:215 / repository.rs:116  the Repository's lock is taken
StoreRepoLock(t) ==
    /\ pc[t] = "store_repo_lock"
    /\ Acquire(repo_lock, t)
    /\ repo_lock' = t
    /\ Goto(t, "store_repo")
    /\ UNCHANGED <<backend, repo, cache, now, loc, cache_lock, started, done>>

StoreRepo_guard_kept(t) ==
    /\ pc[t] = "store_repo"
    /\ \E res \in Outcomes :
          IF res = "err"
          THEN /\ repo' = repo
               /\ repo_lock' = 0
               /\ Return(t, "store", loc[t].memory.id, {}, FALSE, None)
          ELSE /\ repo' = Repository_store(repo, loc[t].memory)
               /\ repo_lock' = repo_lock
               /\ Goto(t, "store_cache_lock")
               /\ loc' = loc
    /\ UNCHANGED <<backend, cache, now, cache_lock, started, done>>

\* memory.rs:145, 216-217 / repository.rs:118-134  the record is written
\* and the lock released; a failed write returns from store
StoreRepo(t) ==
    /\ pc[t] = "store_repo"
    /\ repo_lock' = 0
    /\ \E res \in Outcomes :
          IF res = "err"
          THEN /\ repo' = repo
               /\ Return(t, "store", loc[t].memory.id, {}, FALSE, None)
          ELSE /\ repo' = Repository_store(repo, loc[t].memory)
               /\ Goto(t, "store_cache_lock")
               /\ loc' = loc
    /\ UNCHANGED <<backend, cache, now, cache_lock, started, done>>

\* memory.rs:148  self.cache.lock()
StoreCacheLock(t) ==
    /\ pc[t] = "store_cache_lock"
    /\ Acquire(cache_lock, t)
    /\ cache_lock' = t
    /\ Goto(t, "store_cache")
    /\ UNCHANGED <<backend, repo, cache, now, loc, repo_lock, started, done>>

\* memory.rs:149-151  cache.insert, Ok(memory); the guard is dropped
StoreCacheInsert(t) ==
    /\ pc[t] = "store_cache"
    /\ cache' = CacheInsert(cache, loc[t].memory)
    /\ cache_lock' = 0
    /\ done' = done \cup {Returned(loc[t].memory)}
    /\ Return(t, "store", loc[t].memory.id, {}, TRUE, loc[t].memory)
    /\ UNCHANGED <<backend, repo, now, repo_lock, started>>

\* memory.rs:155  retrieve(id) is called; known: the memories that store
\* has returned under this id before the call
RetrieveBegin(t) ==
    /\ pc[t] = "idle"
    /\ \E id \in MemoryIds :
          loc' = [loc EXCEPT ![t] =
                    [op |-> "retrieve", id |-> id,
                     known |-> { m \in done : m.id = id }, found |-> None]]
    /\ Goto(t, "retrieve_cache_lock")
    /\ UNCHANGED <<backend, repo, cache, now, cache_lock, repo_lock, started, done>>

\* memory.rs:158  self.cache.lock()
RetrieveCacheLock(t) ==
    /\ pc[t] = "retrieve_cache_lock"
    /\ Acquire(cache_lock, t)
    /\ cache_lock' = t
    /\ Goto(t, "retrieve_lookup")
    /\ UNCHANGED <<backend, repo, cache, now, loc, repo_lock, started, done>>

\* memory.rs:159-161, 168  cache.get_mut(id): a hit touches the cached entry
\* and keeps the guard; a miss leaves the block, which drops the guard
RetrieveLookup(t) ==
    /\ pc[t] = "retrieve_lookup"
    /\ IF cache[loc[t].id] # None
       THEN /\ cache' = [cache EXCEPT ![loc[t].id] = Memory_touch(@, now)]
            /\ cache_lock' = cache_lock
            /\ Goto(t, "retrieve_touch_lock")
       ELSE /\ cache' = cache
            /\ cache_lock' = 0
            /\ Goto(t, "retrieve_read_lock")
    /\ UNCHANGED <<backend, repo, now, loc, repo_lock, started, done>>

\* memory.rs:164, 226 / repository.rs:174  repository.touch takes the
\* Repository's lock inside the block that holds the cache guard
RetrieveTouchLock(t) ==
    /\ pc[t] = "retrieve_touch_lock"
    /\ Acquire(repo_lock, t)
    /\ repo_lock' = t
    /\ Goto(t, "retrieve_touch")
    /\ UNCHANGED <<backend, repo, cache, now, loc, cache_lock, started, done>>

\* memory.rs:164-166, 227-230 / repository.rs:175-180  the record is touched
\* and the Repository's lock released; the return drops the cache guard
RetrieveTouch(t) ==
    /\ pc[t] = "retrieve_touch"
    /\ repo_lock' = 0
    /\ cache_lock' = 0
    /\ \E res \in Outcomes :
          IF res = "err"
          THEN /\ repo' = repo
               /\ Return(t, "retrieve", loc[t].id, loc[t].known, FALSE, None)
          ELSE /\ repo' = Repository_touch(repo, loc[t].id, now)
               /\ Return(t, "retrieve", loc[t].id, loc[t].known, TRUE,
                         cache[loc[t].id])
    /\ UNCHANGED <<backend, cache, now, started, done>>

\* memory.rs:171, 221 / repository.rs:138  the miss path takes the
\* Repository's lock
RetrieveReadLock(t) ==
    /\ pc[t] = "retrieve_read_lock"
    /\ Acquire(repo_lock, t)
    /\ repo_lock' = t
    /\ Goto(t, "retrieve_read")
    /\ UNCHANGED <<backend, repo, cache, now, loc, cache_lock, started, done>>

\* memory.rs:171-172, 179, 222 / repository.rs:139-168  the record is read
\* and the lock released
RetrieveRead(t) ==
    /\ pc[t] = "retrieve_read"
    /\ repo_lock' = 0
    /\ \E res \in Outcomes :
          LET found == Repository_retrieve(repo, loc[t].id) IN
          IF res = "err"
          THEN Return(t, "retrieve", loc[t].id, loc[t].known, FALSE, None)
          ELSE IF found = None
          THEN Return(t, "retrieve", loc[t].id, loc[t].known, TRUE, None)
          ELSE /\ loc' = [loc EXCEPT ![t].found = found]
               /\ Goto(t, "retrieve_insert_lock")
    /\ UNCHANGED <<backend, repo, cache, now, cache_lock, started, done>>

\* memory.rs:174  self.cache.lock()
RetrieveInsertLock(t) ==
    /\ pc[t] = "retrieve_insert_lock"
    /\ Acquire(cache_lock, t)
    /\ cache_lock' = t
    /\ Goto(t, "retrieve_insert")
    /\ UNCHANGED <<backend, repo, cache, now, loc, repo_lock, started, done>>

\* memory.rs:175-177  cache.insert, Ok(Some(memory)); the guard is dropped
RetrieveInsert(t) ==
    /\ pc[t] = "retrieve_insert"
    /\ cache' = CacheInsert(cache, loc[t].found)
    /\ cache_lock' = 0
    /\ Return(t, "retrieve", loc[t].id, loc[t].known, TRUE, loc[t].found)
    /\ UNCHANGED <<backend, repo, now, repo_lock, started, done>>

\* memory.rs:184-191  get_all_ids() or total_tokens() is called; known: the
\* memories that store has returned before the call
ReadBegin(t) ==
    /\ pc[t] = "idle"
    /\ \E op \in {"get_all_ids", "total_tokens"} :
          loc' = [loc EXCEPT ![t] = [op |-> op, known |-> done]]
    /\ Goto(t, "read_lock")
    /\ UNCHANGED <<backend, repo, cache, now, cache_lock, repo_lock, started, done>>

\* memory.rs:234, 239 / repository.rs:184, 200  the Repository's lock
ReadLock(t) ==
    /\ pc[t] = "read_lock"
    /\ Acquire(repo_lock, t)
    /\ repo_lock' = t
    /\ Goto(t, "read")
    /\ UNCHANGED <<backend, repo, cache, now, loc, cache_lock, started, done>>

\* memory.rs:235, 240 / repository.rs:185-196, 201-207  the ids or the sum
\* are read under the lock
Read(t) ==
    /\ pc[t] = "read"
    /\ repo_lock' = 0
    /\ IF loc[t].op = "get_all_ids"
       THEN \E res \in Outcomes :
               IF res = "err"
               THEN Return(t, "get_all_ids", 0, loc[t].known, FALSE, {})
               ELSE Return(t, "get_all_ids", 0, loc[t].known, TRUE,
                           Repository_get_all_ids(repo))
       ELSE \E res \in TotalOutcomes :
               IF res = "err_prepare"
               THEN Return(t, "total_tokens", 0, loc[t].known, FALSE, 0)
               ELSE IF res = "err_query"
               THEN Return(t, "total_tokens", 0, loc[t].known, TRUE, 0)
               ELSE Return(t, "total_tokens", 0, loc[t].known, TRUE,
                           Repository_total_tokens(repo))
    /\ UNCHANGED <<backend, repo, cache, now, cache_lock, started, done>>

\* The caller has the result and may call again.
Returned_step(t) ==
    /\ pc[t] = "returned"
    /\ Goto(t, "idle")
    /\ loc' = [loc EXCEPT ![t] = Idle]
    /\ UNCHANGED <<backend, repo, cache, now, cache_lock, repo_lock, started, done>>

\* Time passes.
TickC ==
    /\ now < MaxClock
    /\ now' = now + 1
    /\ UNCHANGED <<backend, repo, cache>>
    /\ UNCHANGED concVars

ConcFrame == UNCHANGED <<optVars, log, last, seen, auxVars>>

StoreC    == \E t \in Threads :
                 (\/ StoreBegin(t) \/ StoreRepoLock(t) \/ StoreRepo(t)
                  \/ StoreCacheLock(t) \/ StoreCacheInsert(t)) /\ ConcFrame
RetrieveC == \E t \in Threads :
                 (\/ RetrieveBegin(t) \/ RetrieveCacheLock(t) \/ RetrieveLookup(t)
                  \/ RetrieveTouchLock(t) \/ RetrieveTouch(t)
                  \/ RetrieveReadLock(t) \/ RetrieveRead(t)
                  \/ RetrieveInsertLock(t) \/ RetrieveInsert(t)) /\ ConcFrame
ReadC     == \E t \in Threads :
                 (ReadBegin(t) \/ ReadLock(t) \/ Read(t)) /\ ConcFrame
ReturnC   == \E t \in Threads : Returned_step(t) /\ ConcFrame
ClockC    == TickC /\ ConcFrame

\* memory.rs:109-131  one new MemoryStore, no call in progress
InitConc ==
    /\ backend \in {"memory", "sqlite"}
    /\ repo = Empty
    /\ cache = Empty
    /\ now = 0
    /\ log = <<>>
    /\ last = Call("new", 0, TRUE, None, FALSE, 0, FALSE)
    /\ seen = None
    /\ OptIdle
    /\ AuxIdle
    /\ pc = [t \in Threads |-> "idle"]
    /\ loc = [t \in Threads |-> Idle]
    /\ cache_lock = 0
    /\ repo_lock = 0
    /\ started = {}
    /\ done = {}

NextConc ==
    \/ StoreC
    \/ RetrieveC
    \/ ReadC
    \/ ReturnC
    \/ ClockC

SpecConc == InitConc /\ [][NextConc]_vars

\* The steps of thread t inside a call it has begun.
ThreadStep(t) ==
    (\/ StoreRepoLock(t) \/ StoreRepo(t) \/ StoreCacheLock(t) \/ StoreCacheInsert(t)
     \/ RetrieveCacheLock(t) \/ RetrieveLookup(t)
     \/ RetrieveTouchLock(t) \/ RetrieveTouch(t)
     \/ RetrieveReadLock(t) \/ RetrieveRead(t)
     \/ RetrieveInsertLock(t) \/ RetrieveInsert(t)
     \/ ReadLock(t) \/ Read(t)) /\ ConcFrame

\* The calls alone, within one reading of the clock: no step of a call
\* looks at the clock to decide what it does next.
NextCalls ==
    \/ StoreC
    \/ RetrieveC
    \/ ReadC
    \/ ReturnC

\* Every thread keeps running, and a thread blocked in Mutex::lock gets a
\* lock that is released again and again.  Callers need not call.
SpecConcFair ==
    /\ InitConc
    /\ [][NextCalls]_vars
    /\ \A t \in Threads : SF_vars(ThreadStep(t))

\* ------------------------------------------------------------------------
\* f64 arithmetic.  A finite value is an integer count of 1/Scale; the
\* infinities and NaN are kept apart, with the IEEE 754 rules for them.
\* ------------------------------------------------------------------------
Scale == 1000

Num(v) == [kind |-> "num", v |-> v]
Inf(sign) == [kind |-> "inf", v |-> sign]
NaN == [kind |-> "nan", v |-> 0]

Sign(v) == IF v < 0 THEN -1 ELSE 1

\* usize as f64
as_f64(n) == Num(n * Scale)

f_add(a, b) ==
    IF a.kind = "nan" \/ b.kind = "nan" THEN NaN
    ELSE IF a.kind = "inf" /\ b.kind = "inf"
         THEN (IF a.v = b.v THEN a ELSE NaN)
    ELSE IF a.kind = "inf" THEN a
    ELSE IF b.kind = "inf" THEN b
    ELSE Num(a.v + b.v)

f_mul(a, b) ==
    IF a.kind = "nan" \/ b.kind = "nan" THEN NaN
    ELSE IF a.kind = "inf" \/ b.kind = "inf"
         THEN (IF a.v = 0 \/ b.v = 0 THEN NaN ELSE Inf(Sign(a.v) * Sign(b.v)))
    ELSE Num((a.v * b.v) \div Scale)

f_div(a, b) ==
    IF a.kind = "nan" \/ b.kind = "nan" THEN NaN
    ELSE IF a.kind = "inf"
         THEN (IF b.kind = "inf" THEN NaN ELSE Inf(Sign(a.v) * Sign(b.v)))
    ELSE IF b.kind = "inf" THEN Num(0)
    ELSE IF b.v = 0
         THEN (IF a.v = 0 THEN NaN ELSE Inf(Sign(a.v)))
    ELSE Num((a.v * Scale) \div b.v)

\* a < b; false when either is NaN
f_lt(a, b) ==
    /\ a.kind # "nan"
    /\ b.kind # "nan"
    /\ IF a.kind = "inf" THEN a.v < 0 /\ b # a
       ELSE IF b.kind = "inf" THEN b.v > 0
       ELSE a.v < b.v

\* f64::max, f64::min: when one operand is NaN the other is returned
f_max(a, b) ==
    IF a.kind = "nan" THEN b ELSE IF b.kind = "nan" THEN a
    ELSE IF f_lt(a, b) THEN b ELSE a

f_min(a, b) ==
    IF a.kind = "nan" THEN b ELSE IF b.kind = "nan" THEN a
    ELSE IF f_lt(b, a) THEN b ELSE a

\* PartialOrd::partial_cmp on f64: None when either is NaN
f_partial_cmp(a, b) ==
    IF a.kind = "nan" \/ b.kind = "nan" THEN "None"
    ELSE IF f_lt(a, b) THEN "Less"
    ELSE IF f_lt(b, a) THEN "Greater"
    ELSE "Equal"

\* ln(n) for the document counts of the model, in 1/Scale
LnTable == <<0, 693, 1099, 1386, 1609>>

\* (n as f64 / d as f64).ln() for counts n >= d >= 1
f_ln_ratio(n, d) == Num(LnTable[n] - LnTable[d])

RECURSIVE f_sum(_, _)
f_sum(f, S) ==
    IF S = {} THEN Num(0)
    ELSE LET x == CHOOSE y \in S : TRUE IN f_add(f[x], f_sum(f, S \ {x}))

\* ------------------------------------------------------------------------
\* RelevanceScorer (TfIdfScorer)
\* ------------------------------------------------------------------------
\* relevance.rs:14-16  RelevanceScore::new
RelevanceScore_new_raw(score) == score
RelevanceScore_new(score) == f_min(f_max(score, Num(0)), Num(Scale))

\* relevance.rs:52-80  TfIdfScorer::new: the weights of the metadata keys
ModeWeights ==
    [code      |-> [language |-> 800, file |-> 600, project |-> 500, source |-> 300],
     architect |-> [project |-> 800, design |-> 700, architecture |-> 700, source |-> 300],
     debug     |-> [error |-> 900, language |-> 700, file |-> 600, project |-> 500]]

\* relevance.rs:93-94  the weights of the mode, those of "code" for a mode
\* without weights
WeightsOf(mode) ==
    IF mode \in DOMAIN ModeWeights THEN ModeWeights[mode] ELSE ModeWeights["code"]

\* relevance.rs:99  mode_weights.get(key).copied().unwrap_or(0.1)
WeightOf(weights, key) ==
    IF key \in DOMAIN weights THEN weights[key] ELSE 100

RECURSIVE SumWeights(_, _)
SumWeights(weights, metadata) ==
    IF metadata = {} THEN 0
    ELSE LET kv == CHOOSE x \in metadata : TRUE IN
         WeightOf(weights, kv[1]) + SumWeights(weights, metadata \ {kv})

AtLeastOne(n) == IF n < 1 THEN 1 ELSE n

\* relevance.rs:97-102  the metadata score
metadata_score(memory, mode) ==
    LET weights == WeightsOf(mode) IN
    f_div(Num(SumWeights(weights, memory.metadata)),
          as_f64(AtLeastOne(Cardinality(DOMAIN weights))))

\* str::to_lowercase on the characters of the model
LowerChar(c) == IF c = "A" THEN "a" ELSE IF c = "B" THEN "b" ELSE c
to_lowercase(text) == [k \in 1..Len(text) |-> LowerChar(text[k])]

\* str::split_whitespace: the maximal runs of non-whitespace characters
RECURSIVE split_whitespace(_, _)
split_whitespace(text, word) ==
    IF text = <<>> THEN (IF word = <<>> THEN <<>> ELSE <<word>>)
    ELSE IF IsWhitespace(Head(text))
         THEN (IF word = <<>> THEN <<>> ELSE <<word>>)
              \o split_whitespace(Tail(text), <<>>)
    ELSE split_whitespace(Tail(text), Append(word, Head(text)))

Terms(text) == split_whitespace(to_lowercase(text), <<>>)

\* relevance.rs:149-171  build_document_frequencies: the number of memories
\* whose content has the term (absent from the map when in none)
document_frequency(memories, term) ==
    Cardinality({ k \in 1..Len(memories) : term \in Range(Terms(memories[k].content)) })

\* relevance.rs:126-129  tf * idf of one query term
tf_idf(memory, term, memories) ==
    LET content_terms == Terms(memory.content)
        count == Cardinality({ k \in 1..Len(content_terms) : content_terms[k] = term })
        tf == f_div(as_f64(count), as_f64(AtLeastOne(Len(content_terms))))
        found == document_frequency(memories, term)
        df == IF found = 0 THEN 1 ELSE found
        idf == f_ln_ratio(Len(memories), df)
    IN  f_mul(tf, idf)

\* relevance.rs:136  Utc::now() of the scorer; its clock and the memories'
\* last_accessed count days here.
ScoreClock == 2

\* relevance.rs:137-138  age / (24.0 * 60.0 * 60.0), age the seconds since
\* last_accessed: the days since last_accessed
age_in_days(memory) == as_f64(ScoreClock - memory.last_accessed)

\* relevance.rs:105-140  the content score: the mean tf-idf of the query
\* terms, or the recency 1 / (1 + age / 24h) without a query
content_score(memory, query, memories) ==
    IF query # <<>>
    THEN LET query_terms == Range(Terms(query[1])) IN
         f_div(f_sum([term \in query_terms |-> tf_idf(memory, term, memories)],
                     query_terms),
               as_f64(AtLeastOne(Cardinality(query_terms))))
    ELSE f_div(Num(Scale), f_add(Num(Scale), age_in_days(memory)))

\* relevance.rs:83-146  calculate_tf_idf
calculate_tf_idf(memory, mode, query, memories) ==
    RelevanceScore_new(
        f_add(f_mul(Num(700), content_score(memory, query, memories)),
              f_mul(Num(300), metadata_score(memory, mode))))

\* relevance.rs:210  the comparator of the sort: b.score against a.score
sort_cmp_ascending(a, b) ==
    LET c == f_partial_cmp(a.score, b.score) IN IF c = "None" THEN "Equal" ELSE c
sort_cmp(a, b) ==
    LET c == f_partial_cmp(b.score, a.score) IN IF c = "None" THEN "Equal" ELSE c

\* slice::sort_by is a stable sort: each element goes behind the elements
\* before it that the comparator does not put after it.
RECURSIVE InsertSorted(_, _)
InsertSorted(sorted, x) ==
    IF sorted = <<>> THEN <<x>>
    ELSE IF sort_cmp(x, Head(sorted)) = "Less"
         THEN <<x>> \o sorted
    ELSE <<Head(sorted)>> \o InsertSorted(Tail(sorted), x)

RECURSIVE sort_by(_, _)
sort_by(list, sorted) ==
    IF list = <<>> THEN sorted
    ELSE sort_by(Tail(list), InsertSorted(sorted, Head(list)))

\* relevance.rs:192-207  a ScoredMemory: the clone of the memory and its score
Scored(memory, score) == [memory |-> memory, score |-> score]

score_memories_matching(memories, mode, query) ==
    sort_by(SelectSeq([k \in 1..Len(memories) |->
                         Scored(memories[k],
                                calculate_tf_idf(memories[k], mode, query, memories))],
                      LAMBDA sm : sm.score.v > 0),
            <<>>)

\* relevance.rs:181-213  TfIdfScorer::score_memories
score_memories(memories, mode, query) ==
    sort_by([k \in 1..Len(memories) |->
                Scored(memories[k], calculate_tf_idf(memories[k], mode, query, memories))],
            <<>>)

\* ------------------------------------------------------------------------
\* Context assembly (SmartMemoryService::get_context,
\* get_memory_bank_context)
\* ------------------------------------------------------------------------
\* The memories a corpus is made of: content, metadata and time of last
\* access differ; the last two were last accessed after the scorer's clock.
CorpusArgs ==
    { [content |-> <<"A", " ", "b">>, content_type |-> "text/plain",
       category |-> <<"context">>, mode |-> <<"code">>,
       metadata |-> {<<"language", "rust">>, <<"date", "d1">>}, at |-> 2],
      [content |-> <<"b">>, content_type |-> "text/markdown",
       category |-> <<>>, mode |-> <<>>, metadata |-> {}, at |-> 1],
      [content |-> <<>>, content_type |-> "text/plain",
       category |-> <<"decision">>, mode |-> <<>>,
       metadata |-> {<<"zz", "y">>}, at |-> 3],
      [content |-> <<"a">>, content_type |-> "text/markdown",
       category |-> <<"context">>, mode |-> <<"debug">>,
       metadata |-> {<<"date", "d1">>}, at |-> 4] }

\* Every list of at most MaxDocs memories, the k-th with id k.
Corpora ==
    UNION { { [k \in 1..n |-> Memory_new(k, pick[k], pick[k].at)] :
                pick \in [1..n -> CorpusArgs] } : n \in 0..MaxDocs }

Modes == {"code", "architect", "other"}

\* No query, the empty query, a term of some contents, two terms, and a
\* term of no content.
Queries == { <<>>, <<<<>>>>, <<<<"a">>>>, <<<<"B", " ", "a">>>>, <<<<"z">>>> }

\* relevance_threshold of a request: k / MaxScore, up to one step above 1.0
Thresholds == { (k * Scale) \div MaxScore : k \in 0..(MaxScore + 1) }

Request(op, mode, query, max_tokens, relevance_threshold, categories, date) ==
    [op |-> op, mode |-> mode, query |-> query, max_tokens |-> max_tokens,
     relevance_threshold |-> relevance_threshold,
     categories |-> categories, date |-> date]

Requests ==
    { Request("score_memories", mode, query, 0, 0, {}, "") :
        mode \in Modes, query \in Queries }
    \cup
    { Request("get_context", mode, <<>>, max, thr, {}, "") :
        mode \in Modes, max \in 0..MaxBudget, thr \in Thresholds }
    \cup
    { Request("get_memory_bank_context", mode, <<>>, max, thr, cats, date) :
        mode \in Modes, max \in 0..MaxBudget, thr \in Thresholds,
        cats \in {{}, {"context"}}, date \in {"", "d1"} }

\* The ScoredMemory as optimize reads it: token_count and score.as_f64()
ForOptimize(sm) ==
    [id |-> sm.memory.id, token_count |-> sm.memory.token_count,
     score |-> sm.score.v, memory |-> sm.memory]

\* f64 as f32 keeps 24 significant bits, usize as u32 the low 32 bits: both
\* keep the values of the model as they are.
as_f32(v) == v
as_u32(n) == n

RECURSIVE ContextText(_)
ContextText(selected) ==
    IF selected = <<>> THEN <<>>
    ELSE Head(selected).memory.content \o <<"\n", "\n">> \o ContextText(Tail(selected))

\* memory_service.rs:284-288  ContextSource
ContextSource(m) ==
    [source_id |-> m.id, source_type |-> m.memory.content_type,
     relevance |-> as_f32(m.score)]

\* memory_service.rs:518-522  MemoryBankSource
MemoryBankSource(m) ==
    [source_id |-> m.id,
     source_type |-> IF m.memory.category = <<>> THEN "" ELSE m.memory.category[1],
     relevance |-> as_f32(m.score)]

\* memory_service.rs:297-299, 531-533  the score of the first selected memory
FirstScore_last(selected) ==
    IF selected = <<>> THEN 0 ELSE as_f32(selected[Len(selected)].score)
FirstScore(selected) ==
    IF selected = <<>> THEN 0 ELSE as_f32(Head(selected).score)

\* memory_service.rs:257-304, 491-538  score, optimize and build the response
BuildContext(memories, req, bank) ==
    LET scored == score_memories(memories, req.mode, <<>>)
        threshold == RelevanceScore_new(Num(req.relevance_threshold)).v
        selected == optimize([k \in 1..Len(scored) |-> ForOptimize(scored[k])],
                             req.max_tokens, threshold)
    IN  [ok |-> TRUE,
         selected |-> selected,
         context |-> ContextText(selected),
         token_count |-> as_u32(SumTokens(selected)),
         relevance_score |-> FirstScore(selected),
         sources |-> [k \in 1..Len(selected) |->
                        IF bank THEN MemoryBankSource(selected[k])
                        ELSE ContextSource(selected[k])]]

\* memory_service.rs:440-465  the category and date filters
PassesFilters(memory, req) ==
    /\ req.categories # {} =>
          (memory.category # <<>> /\ memory.category[1] \in req.categories)
    /\ req.date # "" => <<"date", req.date>> \in memory.metadata

CtxFrame == UNCHANGED <<optVars, storeVars, concVars, ctx_mem, ctx_req,
                        tokVars, cfgVars, bakVars, crVars, mainVars>>

\* relevance.rs:181-213  score_memories called with any query
ScoreMemories ==
    /\ ctx_pc = "ready"
    /\ ctx_req.op = "score_memories"
    /\ ctx_out' = score_memories(ctx_mem, ctx_req.mode, ctx_req.query)
    /\ ctx_pc' = "done"
    /\ CtxFrame

\* A failed get_all_ids or retrieve ends the request with Status::internal.
Internal == [ok |-> FALSE]

\* memory_service.rs:238-306  get_context over the memories that
\* get_all_ids and retrieve returned
GetContext ==
    /\ ctx_pc = "ready"
    /\ ctx_req.op = "get_context"
    /\ \E res \in {"ok", "err"} :
          ctx_out' = IF res = "err" THEN Internal
                     ELSE BuildContext(ctx_mem, ctx_req, FALSE)
    /\ ctx_pc' = "done"
    /\ CtxFrame

\* memory_service.rs:426-540  get_memory_bank_context
GetMemoryBankContext ==
    /\ ctx_pc = "ready"
    /\ ctx_req.op = "get_memory_bank_context"
    /\ \E res \in {"ok", "err"} :
          ctx_out' = IF res = "err" THEN Internal
                     ELSE BuildContext(SelectSeq(ctx_mem,
                                          LAMBDA m : PassesFilters(m, ctx_req)),
                                       ctx_req, TRUE)
    /\ ctx_pc' = "done"
    /\ CtxFrame

InitCtx ==
    /\ ctx_mem \in Corpora
    /\ ctx_req \in Requests
    /\ ctx_out = <<>>
    /\ ctx_pc = "ready"
    /\ OptIdle
    /\ StoreIdle
    /\ TokIdle /\ CfgIdle /\ BakIdle /\ CrIdle /\ MainIdle

NextCtx ==
    \/ ScoreMemories
    \/ GetContext
    \/ GetMemoryBankContext

SpecCtx == InitCtx /\ [][NextCtx]_vars

\* ------------------------------------------------------------------------
\* Context assembly on a MemoryStore (SpecAsm): get_context and
\* get_memory_bank_context read the store through get_all_ids and retrieve
\* ------------------------------------------------------------------------
StoreState(c, r, t) == [cache |-> c, repo |-> r, now |-> t]

retrieve_hit_untouched(st, id, t2, res) ==
    [ok |-> res = "ok", ret |-> IF res = "ok" THEN st.cache[id] ELSE None,
     st |-> st]

\* memory.rs:157-168  the cache holds the id: the cached entry is touched,
\* then the Repository's record, at the later clock reading t2
retrieve_hit(st, id, t2, res) ==
    LET touched == Memory_touch(st.cache[id], st.now) IN
    [ok  |-> res = "ok",
     ret |-> IF res = "ok" THEN touched ELSE None,
     st  |-> StoreState([st.cache EXCEPT ![id] = touched],
                        IF res = "ok" THEN Repository_touch(st.repo, id, t2)
                        ELSE st.repo,
                        t2)]

\* memory.rs:170-180  cache miss: read the Repository, insert what was found
retrieve_miss(st, id, res) ==
    LET found == Repository_retrieve(st.repo, id) IN
    [ok  |-> res = "ok",
     ret |-> IF res = "ok" THEN found ELSE None,
     st  |-> IF res = "ok" /\ found # None
             THEN StoreState(CacheInsert(st.cache, found), st.repo, st.now)
             ELSE st]

\* memory.rs:155-181  MemoryStore::retrieve on the store st: every result
MemoryStore_retrieve(st, id) ==
    IF st.cache[id] # None
    THEN { retrieve_hit(st, id, t2, res) :
             t2 \in { t \in st.now..(st.now + 1) : t <= MaxClock }, res \in Outcomes }
    ELSE { retrieve_miss(st, id, res) : res \in Outcomes }

\* The orders in which get_all_ids can return the ids of S.
Orders(S) ==
    { order \in [1..Cardinality(S) -> S] :
        \A i, j \in 1..Cardinality(S) : i # j => order[i] # order[j] }

\* memory_service.rs:248-255, 460-489  the loop over memory_ids: retrieve
\* every id, keep what was found, leave at the first error
RECURSIVE RetrieveAll(_, _, _)
RetrieveAll(st, ids, memories) ==
    IF ids = <<>> THEN { [ok |-> TRUE, st |-> st, memories |-> memories] }
    ELSE UNION { IF r.ok
                 THEN RetrieveAll(r.st, Tail(ids),
                                  IF r.ret # None THEN Append(memories, r.ret)
                                  ELSE memories)
                 ELSE { [ok |-> FALSE, st |-> r.st, memories |-> <<>>] } :
                 r \in MemoryStore_retrieve(st, Head(ids)) }

\* The requests served from the store.
AsmRequests ==
    { req \in Requests :
        /\ req.op \in {"get_context", "get_memory_bank_context"}
        /\ req.mode = "code"
        /\ req.max_tokens \in {1, MaxBudget}
        /\ req.relevance_threshold = 0
        /\ req.date = "" }

\* The record of a request: whether it returned Ok, the clock when it
\* started, the ids the cache held then, those of them last accessed
\* before the request started, and the ids of the memories selected into
\* the context.
Assembled(req, ok, t0, cached, selected) ==
    [op |-> req.op, ok |-> ok, t0 |-> t0, cached |-> cached,
     older |-> { id \in cached : cache[id].last_accessed < t0 },
     selected |-> selected, categories |-> req.categories]

\* memory_service.rs:238-306, 450-540  a request served from the store
ServeContext(op) ==
    /\ \E req \in AsmRequests, res \in Outcomes :
          /\ req.op = op
          /\ LET cached == { id \in MemoryIds : cache[id] # None } IN
             IF res = "err"
             THEN /\ last' = Assembled(req, FALSE, now, cached, {})
                  /\ UNCHANGED <<repo, cache, now>>
             ELSE \E order \in Orders(Repository_get_all_ids(repo)) :
                  \E r \in RetrieveAll(StoreState(cache, repo, now), order, <<>>) :
                     LET kept == IF op = "get_context" THEN r.memories
                                 ELSE SelectSeq(r.memories,
                                                LAMBDA m : PassesFilters(m, req))
                         built == BuildContext(kept, req, op # "get_context")
                     IN  /\ cache' = r.st.cache
                         /\ repo' = r.st.repo
                         /\ now' = r.st.now
                         /\ last' = Assembled(req, r.ok, now, cached,
                                       IF r.ok
                                       THEN { built.selected[k].id :
                                                k \in 1..Len(built.selected) }
                                       ELSE {})
    /\ UNCHANGED <<backend, log, seen>>
    /\ UNCHANGED <<optVars, concVars, auxVars>>

ServeGetContext == ServeContext("get_context")

ServeGetMemoryBankContext == ServeContext("get_memory_bank_context")

NextAsm ==
    \/ Store
    \/ Reopen
    \/ Tick
    \/ ServeGetContext
    \/ ServeGetMemoryBankContext

SpecAsm == Init /\ [][NextAsm]_vars

\* ------------------------------------------------------------------------
\* Tokenizer (storage/tokenizer.rs)
\*
\* A text is a short sequence of characters followed by `pad` further ASCII
\* letters, so that lengths beyond the 24 bits of an f32 mantissa can be
\* handled.  The files under models/ are what Tokenizer::new reads and
\* writes.
\* ------------------------------------------------------------------------
MaxText == 2   \* longest spelled-out part of a text
MaxIds  == 2   \* most ids an encoding of the model holds

\* the characters of the model: a letter, a blank, a two-byte letter
TokChars == {"a", " ", "e'"}

F32Mantissa == 16777216   \* 2^24: every smaller usize is an f32

TokPads == {0, 4, F32Mantissa}

TokContents == UNION { [1..n -> TokChars] : n \in 0..MaxText }

TokTexts == { [content |-> c, pad |-> p] : c \in TokContents, p \in TokPads }

\* str::len(): the length in bytes of the UTF-8 encoding
Utf8Len(c) == IF c = "e'" THEN 2 ELSE 1

RECURSIVE ByteLenOf(_)
ByteLenOf(content) ==
    IF content = <<>> THEN 0 ELSE Utf8Len(Head(content)) + ByteLenOf(Tail(content))

\* tokenizer.rs:174,180  text.len()
str_len(text) == ByteLenOf(text.content) + text.pad

\* str::chars().count()
char_length(text) == Len(text.content) + text.pad

\* tokenizer.rs:164  text.split_whitespace().count(): the padding letters
\* continue the last word or start a new one.
text_split_whitespace_count(text) ==
    LET c == text.content
    IN  count_tokens(c)
        + (IF text.pad > 0 /\ (c = <<>> \/ IsWhitespace(c[Len(c)])) THEN 1 ELSE 0)

\* The spacing of the f32 values around n.
RECURSIVE F32Step(_)
F32Step(n) == IF n < F32Mantissa THEN 1 ELSE 2 * F32Step(n \div 2)

\* tokenizer.rs:174,180  `text.len() as f32`: the nearest f32, ties to even
usize_as_f32(n) ==
    LET s == F32Step(n)
        q == n \div s
        r == n % s
    IN  IF 2 * r > s \/ (2 * r = s /\ q % 2 = 1) THEN (q + 1) * s ELSE q * s

\* tokenizer.rs:174,180  `(x * 0.25) as usize`: the product is exact, the
\* cast drops the fraction.
quarter_as_usize(x) == x \div 4

usize_max(a, b) == IF a >= b THEN a ELSE b

length_heuristic_chars(text) ==
    usize_max(quarter_as_usize(usize_as_f32(char_length(text))), 1)

\* tokenizer.rs:172-182  the fallback of count_tokens
length_heuristic(text) ==
    usize_max(quarter_as_usize(usize_as_f32(str_len(text))), 1)

TokenizerTypes == {"Simple", "Gpt2", "Cl100k"}

\* The files Tokenizer::new looks at: whether models/gpt2-vocab.json and
\* models/gpt2-merges.txt exist, what models/gpt2-tokenizer.json and
\* models/cl100k-tokenizer.json hold, and whether models/ can be written.
ModelFiles ==
    [ vocab    : BOOLEAN,
      merges   : BOOLEAN,
      gpt2     : {"missing", "corrupt", "gpt2", "bpe_default"},
      cl100k   : {"missing", "corrupt", "cl100k"},
      writable : BOOLEAN ]

LoadOk(model, fs) == [ok |-> TRUE, model |-> model, fs |-> fs]
LoadErr(fs)       == [ok |-> FALSE, fs |-> fs]

\* tokenizer.rs:120-136  download_gpt2_tokenizer: writes a default BPE
\* tokenizer to models/gpt2-tokenizer.json, and neither of the two files
\* whose absence triggers it.
download_gpt2_tokenizer(fs) ==
    IF fs.writable
    THEN [ok |-> TRUE, fs |-> [fs EXCEPT !.gpt2 = "bpe_default"]]
    ELSE [ok |-> FALSE, fs |-> fs]

\* tokenizer.rs:113-116  HfTokenizer::from_file("models/gpt2-tokenizer.json")
gpt2_from_file(fs) ==
    IF fs.gpt2 \in {"gpt2", "bpe_default"} THEN LoadOk(fs.gpt2, fs) ELSE LoadErr(fs)

\* tokenizer.rs:102-117  load_gpt2_tokenizer
load_gpt2_tokenizer(fs) ==
    IF ~fs.vocab \/ ~fs.merges
    THEN LET d == download_gpt2_tokenizer(fs)
         IN  IF d.ok THEN gpt2_from_file(d.fs) ELSE LoadErr(d.fs)
    ELSE gpt2_from_file(fs)

\* tokenizer.rs:139-157  load_cl100k_tokenizer
load_cl100k_tokenizer(fs) ==
    IF fs.cl100k = "missing" THEN load_gpt2_tokenizer(fs)
    ELSE IF fs.cl100k = "cl100k" THEN LoadOk("cl100k", fs)
    ELSE LoadErr(fs)

\* tokenizer.rs:80-99  Tokenizer::new: a loader's error is returned with `?`
Tokenizer_new(tokenizer_type, fs) ==
    IF tokenizer_type = "Simple"
    THEN [ok |-> TRUE, tokenizer_type |-> tokenizer_type, hf_tokenizer |-> <<>>, fs |-> fs]
    ELSE LET l == IF tokenizer_type = "Gpt2" THEN load_gpt2_tokenizer(fs)
                  ELSE load_cl100k_tokenizer(fs)
         IN  IF l.ok
             THEN [ok |-> TRUE, tokenizer_type |-> tokenizer_type,
                   hf_tokenizer |-> <<l.model>>, fs |-> l.fs]
             ELSE [ok |-> FALSE, fs |-> l.fs]

\* tokenizer.rs:170  HfTokenizer::encode, a library call: it fails or
\* returns some number of ids.
Encodings == {[ok |-> FALSE]} \cup { [ok |-> TRUE, ids |-> n] : n \in 0..MaxIds }

TokenCounted(count, fallback) == [count |-> count, fallback |-> fallback]

\* tokenizer.rs:160-185  Tokenizer::count_tokens; `fallback` records that
\* the length heuristic answered.
Tokenizer_count_tokens(tokenizer, text, encoding) ==
    IF tokenizer.tokenizer_type = "Simple"
    THEN TokenCounted(text_split_whitespace_count(text), FALSE)
    ELSE IF tokenizer.hf_tokenizer # <<>>
         THEN IF encoding.ok
              THEN TokenCounted(encoding.ids, FALSE)
              ELSE TokenCounted(length_heuristic(text), TRUE)
         ELSE TokenCounted(length_heuristic(text), TRUE)

TokFrame == UNCHANGED <<optVars, storeVars, concVars, ctxVars, cfgVars, bakVars, crVars, mainVars, tok_in>>

\* tokenizer.rs:80-99  Tokenizer::new(tokenizer_type)
TokNew ==
    /\ tok_pc = "ready"
    /\ LET r == Tokenizer_new(tok_in.type, tok_fs)
       IN  /\ tok' = [k \in DOMAIN r \ {"fs"} |-> r[k]]
           /\ tok_fs' = r.fs
    /\ tok_pc' = "built"
    /\ UNCHANGED tok_out
    /\ TokFrame

\* tokenizer.rs:160-185  count_tokens(text) on the tokenizer that was built
TokCount ==
    /\ tok_pc = "built"
    /\ tok.ok
    /\ \E encoding \in Encodings :
          tok_out' = Tokenizer_count_tokens(tok, tok_in.text, encoding)
    /\ tok_pc' = "done"
    /\ UNCHANGED <<tok, tok_fs>>
    /\ TokFrame

InitTok ==
    /\ tok_in \in [type : TokenizerTypes, text : TokTexts, fs : ModelFiles]
    /\ tok_fs = tok_in.fs
    /\ tok = <<>>
    /\ tok_out = <<>>
    /\ tok_pc = "ready"
    /\ OptIdle
    /\ StoreIdle
    /\ CtxIdle /\ CfgIdle /\ BakIdle /\ CrIdle /\ MainIdle

NextTok ==
    \/ TokNew
    \/ TokCount

SpecTok == InitTok /\ [][NextTok]_vars

\* ------------------------------------------------------------------------
\* MemoryBankConfig (storage/memory_bank_config.rs) and the constructor
\* that loads it (service/memory_service.rs, new_with_config)
\* ------------------------------------------------------------------------
Priorities == {"Low", "Medium", "High", "Critical"}

CategoryConfig(max_tokens, priority) == [max_tokens |-> max_tokens, priority |-> priority]

\* the part of a MemoryBankConfig besides the categories, with the values
\* of Default; relevance.threshold in thousandths
DefaultSettings ==
    [ update_triggers |-> [auto_update |-> TRUE, umb_command |-> TRUE],
      token_budget    |-> [total |-> 50000, per_category |-> TRUE],
      relevance       |-> [threshold |-> 700, boost_recent |-> TRUE] ]

MemoryBankConfig(categories, settings) ==
    [ categories      |-> categories,
      update_triggers |-> settings.update_triggers,
      token_budget    |-> settings.token_budget,
      relevance       |-> settings.relevance ]

\* memory_bank_config.rs:78-124  impl Default for MemoryBankConfig
MemoryBankConfig_default ==
    MemoryBankConfig(
        [c \in {"context", "decision", "progress", "product", "pattern"} |->
            CASE c = "context"  -> CategoryConfig(10000, "High")
              [] c = "decision" -> CategoryConfig(5000, "Medium")
              [] c = "progress" -> CategoryConfig(8000, "High")
              [] c = "product"  -> CategoryConfig(10000, "Medium")
              [] c = "pattern"  -> CategoryConfig(5000, "Low")],
        DefaultSettings)

\* configurations a file may hold: the default, one without categories,
\* and one that redefines "context" and adds a category of its own
ConfigSamples ==
    { MemoryBankConfig_default,
      MemoryBankConfig(<<>>, DefaultSettings),
      MemoryBankConfig(
          [c \in {"context", "custom"} |->
              IF c = "context" THEN CategoryConfig(0, "Low")
              ELSE CategoryConfig(7, "Critical")],
          [DefaultSettings EXCEPT !.token_budget.total = 7]) }

\* the category names asked for
CategoryNames == {"context", "pattern", "custom", "unknown", ""}

\* memory_bank_config.rs:16-17  #[serde(rename_all = "lowercase")]
priority_to_json(p) ==
    CASE p = "Low" -> "low" [] p = "Medium" -> "medium"
      [] p = "High" -> "high" [] p = "Critical" -> "critical"

JsonPriorities == { priority_to_json(p) : p \in Priorities }

priority_from_json(j) == CHOOSE p \in Priorities : priority_to_json(p) = j

\* memory_bank_config.rs:144  serde_json::to_string_pretty(self): the text
\* of a JSON object with the four fields
to_json(config) ==
    [ json |->
        [ categories |->
            [c \in DOMAIN config.categories |->
                [max_tokens |-> config.categories[c].max_tokens,
                 priority   |-> priority_to_json(config.categories[c].priority)]],
          update_triggers |-> config.update_triggers,
          token_budget    |-> config.token_budget,
          relevance       |-> config.relevance ] ]

\* A file that is not JSON at all, one whose priority is not spelled in
\* lower case, and one that lacks the "relevance" field.
MalformedFiles ==
    { [text |-> "not json"],
      [json |-> [to_json(MemoryBankConfig_default).json EXCEPT
                    !.categories["context"].priority = "High"]],
      [json |-> [k \in {"categories", "update_triggers", "token_budget"} |->
                    to_json(MemoryBankConfig_default).json[k]]] }

ConfigFiles == {None} \cup MalformedFiles \cup { to_json(c) : c \in ConfigSamples }

\* memory_bank_config.rs:136-137  serde_json::from_str::<MemoryBankConfig>
WellFormed(file) ==
    /\ "json" \in DOMAIN file
    /\ DOMAIN file.json = {"categories", "update_triggers", "token_budget", "relevance"}
    /\ \A c \in DOMAIN file.json.categories :
          /\ file.json.categories[c].max_tokens >= 0
          /\ file.json.categories[c].priority \in JsonPriorities

\* memory_bank_config.rs:128-140  MemoryBankConfig::from_file
MemoryBankConfig_from_file(file) ==
    IF file = None \/ ~WellFormed(file) THEN [ok |-> FALSE]
    ELSE [ ok |-> TRUE,
           config |->
             MemoryBankConfig(
                 [c \in DOMAIN file.json.categories |->
                     CategoryConfig(file.json.categories[c].max_tokens,
                                    priority_from_json(file.json.categories[c].priority))],
                 file.json) ]

\* memory_bank_config.rs:143-151  MemoryBankConfig::to_file: the file after
\* the call and whether the write succeeded
MemoryBankConfig_to_file(config, file, writable) ==
    IF writable THEN [ok |-> TRUE, file |-> to_json(config)]
    ELSE [ok |-> FALSE, file |-> file]

get_max_tokens_zero(config, category) ==
    IF category \in DOMAIN config.categories
    THEN config.categories[category].max_tokens
    ELSE 0

\* memory_bank_config.rs:154-161  get_max_tokens
get_max_tokens(config, category) ==
    IF category \in DOMAIN config.categories
    THEN config.categories[category].max_tokens
    ELSE 1000

\* memory_bank_config.rs:164-169  get_priority
get_priority(config, category) ==
    IF category \in DOMAIN config.categories
    THEN config.categories[category].priority
    ELSE "Medium"

new_with_config_default(file, writable) ==
    [config |-> MemoryBankConfig_default, file |-> file]

\* memory_service.rs:129-149  new_with_config, the configuration part: the
\* loaded configuration, or the default after a failed load together with
\* an attempt to save it, whose failure is only printed.
load_or_default(file, writable) ==
    LET loaded == MemoryBankConfig_from_file(file)
    IN  IF loaded.ok THEN [config |-> loaded.config, file |-> file]
        ELSE [ config |-> MemoryBankConfig_default,
               file   |-> MemoryBankConfig_to_file(MemoryBankConfig_default,
                                                   file, writable).file ]

CfgFrame == UNCHANGED <<optVars, storeVars, concVars, ctxVars, tokVars, bakVars, crVars, mainVars, cfg_env>>

\* memory_service.rs:115-157  SmartMemoryService::new_with_config: a store
\* that cannot be opened ends the call before the configuration is read.
NewWithConfig ==
    /\ cfg_pc = "ready"
    /\ IF cfg_env.store_ok
       THEN LET r == load_or_default(cfg_file, cfg_env.writable)
            IN  /\ cfg' = [ok |-> TRUE, memory_bank_config |-> r.config]
                /\ cfg_file' = r.file
       ELSE /\ cfg' = [ok |-> FALSE]
            /\ UNCHANGED cfg_file
    /\ cfg_pc' = "built"
    /\ UNCHANGED cfg_out
    /\ CfgFrame

Accessor(op, category, ret) == [op |-> op, category |-> category, ret |-> ret]

\* memory_bank_config.rs:154-161  get_max_tokens on the service's configuration
GetMaxTokens ==
    /\ cfg_pc = "built"
    /\ cfg.ok
    /\ \E category \in CategoryNames :
          cfg_out' = Accessor("get_max_tokens", category,
                              get_max_tokens(cfg.memory_bank_config, category))
    /\ UNCHANGED <<cfg, cfg_file, cfg_pc>>
    /\ CfgFrame

\* memory_bank_config.rs:164-169  get_priority on the service's configuration
GetPriority ==
    /\ cfg_pc = "built"
    /\ cfg.ok
    /\ \E category \in CategoryNames :
          cfg_out' = Accessor("get_priority", category,
                              get_priority(cfg.memory_bank_config, category))
    /\ UNCHANGED <<cfg, cfg_file, cfg_pc>>
    /\ CfgFrame

InitCfg ==
    /\ cfg_env \in [file : ConfigFiles, writable : BOOLEAN, store_ok : BOOLEAN]
    /\ cfg_file = cfg_env.file
    /\ cfg = <<>>
    /\ cfg_out = <<>>
    /\ cfg_pc = "ready"
    /\ OptIdle
    /\ StoreIdle
    /\ CtxIdle /\ TokIdle /\ BakIdle /\ CrIdle /\ MainIdle

NextCfg ==
    \/ NewWithConfig
    \/ GetMaxTokens
    \/ GetPriority

SpecCfg == InitCfg /\ [][NextCfg]_vars

\* ------------------------------------------------------------------------
\* BackupManager (storage/backup.rs)
\*
\* The backup directory maps a timestamp t to the content of backup_t.db,
\* None when there is no such file; its metadata file, written and deleted
\* together with it, carries the same timestamp.  One database file is
\* backed up and restored.
\* ------------------------------------------------------------------------
MaxTime        == 2   \* the clock runs from 0 to MaxTime seconds
MaxKeep        == 2   \* largest max_backups
MaxBackupCalls == 3   \* most create_backup calls, those of restore_backup included

Timestamps == 0..MaxTime

\* what the database file may hold
FileContents == {[data |-> "v1"], [data |-> "v2"]}

NoBackups == [t \in Timestamps |-> None]

BackupsIn(dir) == { t \in Timestamps : dir[t] # None }

\* backup.rs:172-200  list_backups: the backups, newest timestamp first
RECURSIVE SortNewestFirst(_)
SortNewestFirst(S) ==
    IF S = {} THEN <<>>
    ELSE LET newest == CHOOSE t \in S : \A u \in S : u <= t
         IN  <<newest>> \o SortNewestFirst(S \ {newest})

list_backups(dir) == SortNewestFirst(BackupsIn(dir))

\* backup.rs:203-225  delete_backup
delete_backup(dir, t) == [dir EXCEPT ![t] = None]

RECURSIVE DeleteAll(_, _)
DeleteAll(dir, paths) ==
    IF paths = <<>> THEN dir ELSE DeleteAll(delete_backup(dir, Head(paths)), Tail(paths))

\* backup.rs:228-251  rotate_backups: deletes the oldest backups beyond
\* max_backups
rotate_backups(dir, max_backups) ==
    LET backups == list_backups(dir)
    IN  IF Len(backups) > max_backups
        THEN DeleteAll(dir, SubSeq(backups, max_backups + 1, Len(backups)))
        ELSE dir

\* backup.rs:254-267  copy_file into the backup directory: fails when the
\* source cannot be opened, before the destination is created
copy_file(source, dir, t) ==
    IF source = None THEN [ok |-> FALSE, dir |-> dir]
    ELSE [ok |-> TRUE, dir |-> [dir EXCEPT ![t] = source]]

\* backup.rs:53-85  create_backup at time t: the file is named after the
\* time in whole seconds
create_backup(dir, source, t, max_backups) ==
    LET copied == copy_file(source, dir, t)
    IN  IF copied.ok
        THEN [ok |-> TRUE, path |-> t, dir |-> rotate_backups(copied.dir, max_backups)]
        ELSE [ok |-> FALSE, dir |-> dir]

\* backup.rs:254-267  copy_file onto the target can fail at File::create,
\* which leaves no file, or at write_all, which leaves part of the data.
CopyOutcomes == {"ok", "create_failed", "write_failed"}

Partial == [data |-> "partial"]

\* backup.rs:123-169  restore_backup: what it returns, the directory and
\* the target afterwards, and whether it took a pre-restore backup
restore_backup(dir, target, backup, t, max_backups, copy) ==
    IF dir[backup] = None
    THEN [ok |-> FALSE, dir |-> dir, target |-> target, took |-> FALSE]
    ELSE LET pre  == IF target # None
                     THEN create_backup(dir, target, t, max_backups)
                     ELSE [ok |-> FALSE, dir |-> dir]
             dir1 == pre.dir
         IN  \* the target is removed, then the backup copied over it
             IF dir1[backup] = None \/ copy = "create_failed"
             THEN [ok |-> FALSE, dir |-> dir1, target |-> None, took |-> pre.ok]
             ELSE IF copy = "write_failed"
             THEN [ok |-> FALSE, dir |-> dir1, target |-> Partial, took |-> pre.ok]
             ELSE [ok |-> TRUE, dir |-> dir1, target |-> dir1[backup], took |-> pre.ok]

Made(path, content, by) == [path |-> path, content |-> content, by |-> by]

BakFrame == UNCHANGED <<optVars, storeVars, concVars, ctxVars, tokVars, cfgVars, crVars, mainVars, bak_max>>

\* backup.rs:53-85  create_backup(source_path, description) of the database file
CreateBackup ==
    /\ Len(bak_made) < MaxBackupCalls
    /\ LET r == create_backup(bak_dir, bak_target, bak_now, bak_max)
       IN  /\ bak_dir' = r.dir
           /\ bak_made' = IF r.ok THEN Append(bak_made, Made(r.path, bak_target, "caller"))
                          ELSE bak_made
           /\ bak_last' = [op |-> "create_backup", ok |-> r.ok,
                           ret |-> IF r.ok THEN r.path ELSE -1]
    /\ UNCHANGED <<bak_target, bak_now>>
    /\ BakFrame

\* backup.rs:123-169  restore_backup(backup_path, target_path)
RestoreBackup ==
    /\ Len(bak_made) < MaxBackupCalls
    /\ \E backup \in Timestamps, copy \in CopyOutcomes :
          LET r == restore_backup(bak_dir, bak_target, backup, bak_now, bak_max, copy)
          IN  /\ bak_dir' = r.dir
              /\ bak_target' = r.target
              /\ bak_made' = IF r.took THEN Append(bak_made, Made(bak_now, bak_target, "restore"))
                             ELSE bak_made
              /\ bak_last' = [op |-> "restore_backup", ok |-> r.ok, ret |-> backup]
    /\ UNCHANGED bak_now
    /\ BakFrame

\* backup.rs:172-200  list_backups
ListBackups ==
    /\ bak_last' = [op |-> "list_backups", ok |-> TRUE, ret |-> list_backups(bak_dir)]
    /\ UNCHANGED <<bak_dir, bak_target, bak_now, bak_made>>
    /\ BakFrame

\* The database file is rewritten by its owner.
ModifyTarget ==
    /\ \E content \in FileContents \ {bak_target} : bak_target' = content
    /\ bak_last' = [op |-> "modify", ok |-> TRUE, ret |-> 0]
    /\ UNCHANGED <<bak_dir, bak_now, bak_made>>
    /\ BakFrame

\* A second passes.
TickBackup ==
    /\ bak_now < MaxTime
    /\ bak_now' = bak_now + 1
    /\ bak_last' = [op |-> "tick", ok |-> TRUE, ret |-> 0]
    /\ UNCHANGED <<bak_dir, bak_target, bak_made>>
    /\ BakFrame

\* backup.rs:35-50  BackupManager::new on an empty directory, then
\* set_max_backups
InitBak ==
    /\ bak_dir = NoBackups
    /\ bak_target \in FileContents
    /\ bak_now = 0
    /\ bak_max \in 0..MaxKeep
    /\ bak_made = <<>>
    /\ bak_last = [op |-> "new", ok |-> TRUE, ret |-> 0]
    /\ OptIdle
    /\ StoreIdle
    /\ CtxIdle /\ TokIdle /\ CfgIdle /\ CrIdle /\ MainIdle

NextBak ==
    \/ CreateBackup
    \/ RestoreBackup
    \/ ListBackups
    \/ ModifyTarget
    \/ TickBackup

SpecBak == InitBak /\ [][NextBak]_vars

\* ------------------------------------------------------------------------
\* CrashRecoveryManager (crash_recovery.rs)
\*
\* The RecoveryState carries the fields that record_crash,
\* record_recovery_attempt and reset_crash_count write, the timestamp of
\* the last crash left out; recovery.json holds the state last saved.
\* ------------------------------------------------------------------------
MaxCrashes  == 4   \* most crashes recorded without a reset
MaxAttempts == 2   \* most recovery attempts recorded without a reset
MaxAllowed  == 3   \* largest max_recovery_attempts; 3 is what new sets

CrashReasons == {"panic", "signal"}

\* crash_recovery.rs:34-52  RecoveryState::default
RecoveryState_default ==
    [ crash_count       |-> 0,
      last_crash_reason |-> <<>>,
      recovery_attempts |-> 0,
      safe_mode         |-> FALSE ]

record_crash_never_safe(state, reason) ==
    [state EXCEPT !.crash_count = @ + 1,
                  !.last_crash_reason = <<reason>>]

\* crash_recovery.rs:125-140  record_crash, before the state is saved
record_crash(state, reason) ==
    LET counted == [state EXCEPT !.crash_count = @ + 1,
                                 !.last_crash_reason = <<reason>>]
    IN  IF counted.crash_count >= 3
        THEN [counted EXCEPT !.safe_mode = TRUE]
        ELSE counted

\* crash_recovery.rs:184-186  record_recovery_attempt, before the state is saved
record_recovery_attempt(state) ==
    [state EXCEPT !.recovery_attempts = @ + 1]

\* crash_recovery.rs:190-194  reset_crash_count, before the state is saved
reset_crash_count(state) ==
    [state EXCEPT !.crash_count = 0,
                  !.recovery_attempts = 0,
                  !.safe_mode = FALSE]

\* crash_recovery.rs:293-301  save_state: recovery.json afterwards when the
\* write succeeds, when File::create fails, and when write_all fails on the
\* file that File::create emptied
SaveOutcomes(state, file) ==
    { [ok |-> TRUE, file |-> state],
      [ok |-> FALSE, file |-> file],
      [ok |-> FALSE, file |-> [truncated |-> TRUE]] }

should_attempt_recovery_inclusive(state, max_recovery_attempts) ==
    state.recovery_attempts <= max_recovery_attempts

\* crash_recovery.rs:213-215  should_attempt_recovery
should_attempt_recovery(state, max_recovery_attempts) ==
    state.recovery_attempts < max_recovery_attempts

\* What perform_recovery finds at state.db_path: no path set, no file, a
\* file whose metadata cannot be read, an empty file, a file with data.
Databases == {"unset", "missing", "unreadable", "empty", "present"}

\* crash_recovery.rs:248-269  check_database_integrity
check_database_integrity(db) ==
    IF db = "unreadable" THEN [ok |-> FALSE, value |-> FALSE]
    ELSE [ok |-> TRUE, value |-> db = "present"]

\* crash_recovery.rs:272-290  repair_database
repair_database(db) == db \notin {"unset", "missing"}

TooMany == "Too many recovery attempts"

\* crash_recovery.rs:159-169  perform_recovery after the attempt was
\* recorded: the result, given whether the state was saved
recover(saved, db) ==
    IF ~saved THEN [ok |-> FALSE, err |-> "io"]
    ELSE IF ~check_database_integrity(db).ok THEN [ok |-> FALSE, err |-> "io"]
    ELSE IF check_database_integrity(db).value THEN [ok |-> TRUE, err |-> ""]
    ELSE IF repair_database(db) THEN [ok |-> TRUE, err |-> ""]
    ELSE [ok |-> FALSE, err |-> "Database repair failed"]

CrFrame == UNCHANGED <<optVars, storeVars, concVars, ctxVars, tokVars, cfgVars, bakVars, mainVars, cr_max>>

\* crash_recovery.rs:125-142  record_crash(reason)
RecordCrash ==
    /\ cr_state.crash_count < MaxCrashes
    /\ \E reason \in CrashReasons :
          /\ cr_state' = record_crash(cr_state, reason)
          /\ \E saved \in SaveOutcomes(cr_state', cr_file) :
                /\ cr_file' = saved.file
                /\ cr_last' = [op |-> "record_crash", ok |-> saved.ok]
    /\ cr_tried' = cr_tried
    /\ CrFrame

\* crash_recovery.rs:184-187  record_recovery_attempt
RecordRecoveryAttempt ==
    /\ cr_state.recovery_attempts < MaxAttempts
    /\ cr_state' = record_recovery_attempt(cr_state)
    /\ \E saved \in SaveOutcomes(cr_state', cr_file) :
          /\ cr_file' = saved.file
          /\ cr_last' = [op |-> "record_recovery_attempt", ok |-> saved.ok]
    /\ cr_tried' = cr_tried
    /\ CrFrame

\* crash_recovery.rs:154-170  perform_recovery
PerformRecovery ==
    /\ IF ~should_attempt_recovery(cr_state, cr_max)
       THEN /\ cr_last' = [op |-> "perform_recovery", ok |-> FALSE, err |-> TooMany]
            /\ UNCHANGED <<cr_state, cr_file, cr_tried>>
       ELSE /\ cr_state' = record_recovery_attempt(cr_state)
            /\ cr_tried' = cr_tried + 1
            /\ \E saved \in SaveOutcomes(cr_state', cr_file), db \in Databases :
                  /\ cr_file' = saved.file
                  /\ cr_last' = [op |-> "perform_recovery",
                                 ok |-> recover(saved.ok, db).ok,
                                 err |-> recover(saved.ok, db).err]
    /\ CrFrame

\* crash_recovery.rs:190-195  reset_crash_count
ResetCrashCount ==
    /\ cr_state' = reset_crash_count(cr_state)
    /\ \E saved \in SaveOutcomes(cr_state', cr_file) :
          /\ cr_file' = saved.file
          /\ cr_last' = [op |-> "reset_crash_count", ok |-> saved.ok]
    /\ cr_tried' = 0
    /\ CrFrame

\* crash_recovery.rs:68-104  CrashRecoveryManager::new on a directory
\* without recovery.json, then set_max_recovery_attempts
InitCr ==
    /\ cr_state = RecoveryState_default
    /\ cr_file = None
    /\ cr_last = [op |-> "new", ok |-> TRUE]
    /\ cr_max \in 0..MaxAllowed
    /\ cr_tried = 0
    /\ OptIdle
    /\ StoreIdle
    /\ CtxIdle /\ TokIdle /\ CfgIdle /\ BakIdle /\ MainIdle

NextCr ==
    \/ RecordCrash
    \/ RecordRecoveryAttempt
    \/ PerformRecovery
    \/ ResetCrashCount

SpecCr == InitCr /\ [][NextCr]_vars

\* ------------------------------------------------------------------------
\* main and the parent process monitor (main.rs,
\* parent_process_monitor.rs), from the start of the monitor on
\*
\* tokio::select! polls its three branches on main's own task.  The third
\* branch is an async block around wait_for_shutdown_request, a loop of
\* thread::sleep: a poll of it returns only when one of the two flags is
\* set, and until then the other branches are not polled again.
\* ------------------------------------------------------------------------
PidSources == {"env", "env_unparsable", "file", "none"}

MainFrame == UNCHANGED <<optVars, storeVars, concVars, ctxVars, tokVars,
                         cfgVars, bakVars, crVars, m_pid>>

\* parent_process_monitor.rs:18-58  start_parent_process_monitor: the
\* thread is spawned when a pid was found (main.rs:207)
StartParentProcessMonitor ==
    /\ m_pc = "start"
    /\ m_mon' = IF m_pid \in {"env", "file"} THEN "sleep" ELSE "none"
    /\ m_pc' = "select"
    /\ UNCHANGED <<m_exit, m_state, m_parent, m_sig, SHUTDOWN_REQUESTED,
                   shutdown_requested>>
    /\ MainFrame

\* main.rs:219-240  server.serve(addr) completes when polled: Ok goes on to
\* the join, Err records the crash and returns from main at once
ServeReturns ==
    /\ m_pc = "select"
    /\ \E result \in {"ok", "err"} :
          IF result = "ok"
          THEN /\ m_state' = "stopped"
               /\ m_pc' = "join"
               /\ m_exit' = m_exit
          ELSE /\ m_state' = "crash"
               /\ m_pc' = "returned"
               /\ m_exit' = "err"
    /\ UNCHANGED <<m_mon, m_parent, m_sig, SHUTDOWN_REQUESTED, shutdown_requested>>
    /\ MainFrame

\* main.rs:241-251  signal::ctrl_c() completes when polled after the signal
CtrlC ==
    /\ m_pc = "select"
    /\ m_sig = "pending"
    /\ m_sig' = "handled"
    /\ m_state' = "shutdown"
    /\ shutdown_requested' = TRUE
    /\ m_pc' = "join"
    /\ UNCHANGED <<m_exit, m_mon, m_parent, SHUTDOWN_REQUESTED>>
    /\ MainFrame

\* main.rs:252-256  the third branch is polled: main's task enters
\* wait_for_shutdown_request
EnterWait ==
    /\ m_pc = "select"
    /\ m_pc' = "wait"
    /\ UNCHANGED <<m_exit, m_state, m_mon, m_parent, m_sig, SHUTDOWN_REQUESTED,
                   shutdown_requested>>
    /\ MainFrame

\* parent_process_monitor.rs:131-135  wait_for_shutdown_request leaves its
\* loop when the flag it was given or the static flag is set
wait_for_shutdown_request(flag) == flag \/ SHUTDOWN_REQUESTED

\* main.rs:256-263  the loop ended: the third branch completes
WaitReturns ==
    /\ m_pc = "wait"
    /\ wait_for_shutdown_request(shutdown_requested)
    /\ m_state' = "parent_shutdown"
    /\ m_pc' = "join"
    /\ UNCHANGED <<m_exit, m_mon, m_parent, m_sig, SHUTDOWN_REQUESTED,
                   shutdown_requested>>
    /\ MainFrame

\* main.rs:267-273  handle.join() returns when the monitor thread has
\* ended; then Ok(())
Join ==
    /\ m_pc = "join"
    /\ m_mon \in {"none", "done"}
    /\ m_pc' = "returned"
    /\ m_exit' = "ok"
    /\ UNCHANGED <<m_state, m_mon, m_parent, m_sig, SHUTDOWN_REQUESTED,
                   shutdown_requested>>
    /\ MainFrame

\* parent_process_monitor.rs:46  thread::sleep(check_interval)
MonitorSleep ==
    /\ m_pc # "returned"
    /\ m_mon = "sleep"
    /\ m_mon' = "check"
    /\ UNCHANGED <<m_pc, m_exit, m_state, m_parent, m_sig, SHUTDOWN_REQUESTED,
                   shutdown_requested>>
    /\ MainFrame

\* parent_process_monitor.rs:49-53  the parent is gone: set the flag and
\* leave the loop; otherwise sleep again
MonitorCheck ==
    /\ m_pc # "returned"
    /\ m_mon = "check"
    /\ IF m_parent
       THEN /\ m_mon' = "sleep"
            /\ SHUTDOWN_REQUESTED' = SHUTDOWN_REQUESTED
       ELSE /\ m_mon' = "done"
            /\ SHUTDOWN_REQUESTED' = TRUE
    /\ UNCHANGED <<m_pc, m_exit, m_state, m_parent, m_sig, shutdown_requested>>
    /\ MainFrame

\* The process gets an interrupt signal while the server is up.
Interrupt ==
    /\ m_pc \in {"select", "wait"}
    /\ m_sig = "none"
    /\ m_sig' = "pending"
    /\ UNCHANGED <<m_pc, m_exit, m_state, m_mon, m_parent, SHUTDOWN_REQUESTED,
                   shutdown_requested>>
    /\ MainFrame

\* The parent process ends.
ParentExits ==
    /\ m_pc # "returned"
    /\ m_parent
    /\ m_parent' = FALSE
    /\ UNCHANGED <<m_pc, m_exit, m_state, m_mon, m_sig, SHUTDOWN_REQUESTED,
                   shutdown_requested>>
    /\ MainFrame

\* main.rs:200-207  the server is configured and its state "running"; the
\* pid of the parent may be known, and the parent may be running
InitMain ==
    /\ m_pc = "start"
    /\ m_exit = "none"
    /\ m_state = "running"
    /\ m_pid \in PidSources
    /\ m_mon = "none"
    /\ m_parent \in BOOLEAN
    /\ m_sig = "none"
    /\ SHUTDOWN_REQUESTED = FALSE
    /\ shutdown_requested = FALSE
    /\ OptIdle
    /\ StoreIdle
    /\ CtxIdle /\ TokIdle /\ CfgIdle /\ BakIdle /\ CrIdle

MainStep ==
    \/ StartParentProcessMonitor
    \/ ServeReturns
    \/ CtrlC
    \/ EnterWait
    \/ WaitReturns
    \/ Join

MonitorStep == MonitorSleep \/ MonitorCheck

NextMain ==
    \/ MainStep
    \/ MonitorStep
    \/ Interrupt
    \/ ParentExits

\* main's task and the monitor thread keep running; signals and the end
\* of the parent come when they come.
SpecMain ==
    /\ InitMain
    /\ [][NextMain]_vars
    /\ WF_vars(MainStep)
    /\ WF_vars(MonitorStep)

\* ------------------------------------------------------------------------
\* Properties of optimize (checked under SpecOpt)
\* ------------------------------------------------------------------------
OptE == Eligible(opt_in, opt_thr)

\* C1: the token sum of optimize's output is <= max_tokens, unless the
\* output is exactly one memory whose own token count exceeds max_tokens;
\* an output of two or more memories never exceeds the budget.
C1_BudgetProperty ==
    opt_pc = "done" =>
        /\ \/ SumTokens(opt_out) <= opt_max
           \/ Len(opt_out) = 1 /\ opt_out[1].token_count > opt_max
        /\ Len(opt_out) >= 2 => SumTokens(opt_out) <= opt_max

\* The first-memory exception happens with further eligible memories behind it.
C1_Witness ==
    /\ opt_pc = "done"
    /\ Len(opt_out) = 1
    /\ opt_out[1].token_count > opt_max
    /\ Len(OptE) >= 2

\* C2: optimize never outputs a memory whose score is strictly below the
\* threshold; a score equal to the threshold stays eligible.
C2_ThresholdExclusion ==
    opt_pc = "done" =>
        /\ \A k \in 1..Len(opt_out) : opt_out[k].score >= opt_thr
        /\ (opt_in # <<>> /\ opt_in[1].score = opt_thr) => opt_in[1] \in Range(opt_out)

\* A memory below the threshold was left out and one equal to it was kept.
C2_Witness ==
    /\ opt_pc = "done"
    /\ \E k \in 1..Len(opt_in) : opt_in[k].score < opt_thr
    /\ \E k \in 1..Len(opt_out) : opt_out[k].score = opt_thr

\* C3: the output is a contiguous prefix, in input order, of the
\* threshold-eligible subsequence of the input: after the first eligible
\* memory rejected for the budget, nothing later is included, even a memory
\* that would fit.
C3_EligiblePrefix ==
    opt_pc = "done" =>
        /\ Len(opt_out) <= Len(OptE)
        /\ opt_out = SubSeq(OptE, 1, Len(opt_out))
        /\ Len(opt_out) < Len(OptE) =>
              /\ opt_out # <<>>
              /\ SumTokens(opt_out) + OptE[Len(opt_out) + 1].token_count > opt_max

\* An eligible memory was rejected and a later eligible one that still fits
\* in the remaining budget was left out.
C3_Witness ==
    /\ opt_pc = "done"
    /\ Len(opt_out) + 2 <= Len(OptE)
    /\ \E k \in (Len(opt_out) + 2)..Len(OptE) :
          SumTokens(opt_out) + OptE[k].token_count <= opt_max

\* C4: when the first eligible memory alone exceeds max_tokens, the output
\* is exactly that memory, unmodified, whatever follows it.
C4_OversizedFirst ==
    (opt_pc = "done" /\ OptE # <<>> /\ OptE[1].token_count > opt_max) =>
        opt_out = <<OptE[1]>>

\* Scenario A's shape: an oversized first memory, an eligible one that would
\* fit on its own behind it, and one below the threshold.
C4_Witness ==
    /\ opt_pc = "done"
    /\ Len(opt_in) = 3
    /\ opt_in[1].score >= opt_thr /\ opt_in[1].token_count > opt_max
    /\ opt_in[2].score >= opt_thr /\ opt_in[2].token_count <= opt_max
    /\ opt_in[3].score < opt_thr
    /\ opt_out = <<opt_in[1]>>

\* C5: the output is non-empty whenever some input memory reaches the
\* threshold, whatever the budget, and its first element is the first
\* eligible input memory.
C5_NeverEmpty ==
    (opt_pc = "done" /\ \E k \in 1..Len(opt_in) : opt_in[k].score >= opt_thr) =>
        /\ opt_out # <<>>
        /\ opt_out[1] = OptE[1]

\* A budget smaller than every memory of the input, two of them eligible.
C5_Witness ==
    /\ opt_pc = "done"
    /\ Len(OptE) >= 2
    /\ \A k \in 1..Len(opt_in) : opt_in[k].token_count > opt_max
    /\ opt_out # <<>>

\* ------------------------------------------------------------------------
\* Properties of MemoryStore (checked under Spec and SpecSeen)
\* ------------------------------------------------------------------------
\* The token_count of the memory that retrieve(id) returns in this state.
RetrievedTokens ==
    [id \in MemoryIds |->
        IF cache[id] # None THEN cache[id].token_count
        ELSE IF repo[id] # None THEN repo[id].token_count
        ELSE 0]

\* C6: retrieve(id) of a memory that a successful store returned yields the
\* content and the token_count that store returned.
C6_RoundTrip ==
    Found(last) =>
        \A k \in 1..Len(log) :
            log[k].id = last.id =>
                /\ last.ret.content = log[k].content
                /\ last.ret.token_count = log[k].token_count

\* C7: every successful retrieve(id), served from the cache or from the
\* Repository, refreshes last_accessed to the time of the call in the cache
\* entry and in the Repository record.
C7_RefreshOnEveryRetrieve ==
    Found(last) =>
        /\ cache[last.id] # None
        /\ cache[last.id].last_accessed >= last.t0
        /\ Repository_retrieve(repo, last.id) # None
        /\ Repository_retrieve(repo, last.id).last_accessed >= last.t0

\* C8: of two retrieve(id) calls, the second starting after the first
\* returned, the second returns a last_accessed >= the one the first
\* returned (the clock never goes back).
C8_MonotonicAccess ==
    (Found(last) /\ last.id = seen.id) => last.ret.last_accessed >= seen.at

\* A retrieve that missed the cache after a reopen returned a later
\* last_accessed than an earlier retrieve of the same id.
C8_Witness ==
    /\ Found(last)
    /\ ~last.hit
    /\ last.id = seen.id
    /\ seen.at >= 0
    /\ last.ret.last_accessed > seen.at

\* C9: total_tokens() equals the sum of token_count over the memories whose
\* ids get_all_ids() returns; it is zero for an empty store.
C9_AggregateConsistency ==
    (last.op = "total_tokens" /\ last.ok) =>
        last.ret = SumOver(RetrievedTokens, Repository_get_all_ids(repo))

\* C10: every successful store mints an id different from the id of every
\* memory stored earlier, so no store replaces an existing memory.
C10_FreshIds ==
    \A i, j \in 1..Len(log) : i < j => log[i].id # log[j].id

\* C11: every memory held in the cache or in the Repository has the
\* token_count that the tokenizer computes for its content, and its content
\* and token_count are those of a memory that store created: no store or
\* retrieve alters them.
C11_TokenCountFixed ==
    \A id \in MemoryIds :
        \A held \in {cache[id], Repository_retrieve(repo, id)} \ {None} :
            /\ held.id = id
            /\ held.token_count = count_tokens(held.content)
            /\ Returned(held) \in Range(log)

\* A two-token memory, retrieved from the cache and so touched there and in
\* the Repository, is held by both with its token_count.
C11_Witness ==
    /\ Found(last)
    /\ last.hit
    /\ last.ret.token_count = 2
    /\ cache[last.id].last_accessed < Repository_retrieve(repo, last.id).last_accessed

\* ------------------------------------------------------------------------
\* Properties of the MemoryStore shared by threads (checked under SpecConc)
\* ------------------------------------------------------------------------
\* C12: no MemoryStore operation holds more than one lock at a time: no
\* thread holds the cache lock and the Repository's lock together.
C12_OneLockAtATime ==
    \A t \in Threads : ~(cache_lock = t /\ repo_lock = t)

\* C13: a retrieve(id) that starts after the store call creating that id
\* has returned does not report not-found and returns that memory, with the
\* content and the token_count store returned.
C13_RetrieveAfterStore ==
    \A t \in Threads :
        (pc[t] = "returned" /\ loc[t].op = "retrieve" /\ loc[t].ok) =>
            \A m \in loc[t].known :
                /\ loc[t].ret # None
                /\ Returned(loc[t].ret) = m

\* The token counts of a set of memories, added up.
RECURSIVE TokensOf(_)
TokensOf(S) ==
    IF S = {} THEN 0
    ELSE LET m == CHOOSE x \in S : TRUE IN m.token_count + TokensOf(S \ {m})

\* C14: get_all_ids and total_tokens, called while stores run, return a
\* snapshot of the Repository: every memory whose store returned before the
\* call started is included, and only memories whose store had started.
C14_Snapshot ==
    \A t \in Threads :
        pc[t] = "returned" =>
            /\ (loc[t].op = "get_all_ids" /\ loc[t].ok) =>
                  /\ { m.id : m \in loc[t].known } \subseteq loc[t].ret
                  /\ loc[t].ret \subseteq { m.id : m \in started }
            /\ (loc[t].op = "total_tokens" /\ loc[t].ok) =>
                  /\ TokensOf(loc[t].known) <= loc[t].ret
                  /\ loc[t].ret <= TokensOf(started)

\* ------------------------------------------------------------------------
\* Properties of MemoryStore, continued (checked under Spec)
\* ------------------------------------------------------------------------
\* C15: a Repository operation that hits a storage failure returns an error
\* to its caller; none returns a normal-looking result.
C15_FailuresReturnErrors ==
    last.fault => ~last.ok

\* C16: store returns an error exactly when the Repository write fails, and
\* a failed store leaves the cache and the Repository as they were, so the
\* new memory is in neither.
C16_FailedStore ==
    [][ last'.op = "store" =>
            /\ ~last'.ok <=> last'.fault
            /\ ~last'.ok => (cache' = cache /\ repo' = repo) ]_vars

\* A store failed while another memory was held; the id drawn for the new
\* memory is in neither the cache nor the Repository.
C16_Witness ==
    /\ last.op = "store"
    /\ ~last.ok
    /\ cache[last.id] = None
    /\ repo[last.id] = None
    /\ \E id \in MemoryIds : cache[id] # None

\* C17 as stated: retrieve(id) of an id that is in neither the cache nor
\* the Repository always returns Ok(None), never an error.
C17_AbsentReturnsNone ==
    (last.op = "retrieve" /\ ~last.hit /\ repo[last.id] = None) =>
        (last.ok /\ last.ret = None)

\* C17 (amended): retrieve(id) of an id that is in neither the cache nor the
\* Repository leaves both unchanged and returns Ok(None), or the storage
\* error when the Repository read itself failed.
C17_AbsentIsNotFound ==
    [][ (last'.op = "retrieve" /\ cache[last'.id] = None /\ repo[last'.id] = None) =>
            /\ cache' = cache
            /\ repo' = repo
            /\ \/ last'.ok /\ last'.ret = None /\ ~last'.fault
               \/ ~last'.ok /\ last'.fault /\ backend = "sqlite" ]_vars

\* A store that holds another memory answered not-found for an absent id.
C17_Witness ==
    /\ last.op = "retrieve"
    /\ last.ok
    /\ last.ret = None
    /\ cache[last.id] = None
    /\ repo[last.id] = None
    /\ \E id \in MemoryIds : repo[id] # None

\* Two records that differ at most in last_accessed (or are both absent).
SameButAccess(a, b) ==
    \/ a = None /\ b = None
    \/ /\ a # None
       /\ b # None
       /\ [a EXCEPT !.last_accessed = 0] = [b EXCEPT !.last_accessed = 0]

C19_Upsert ==
    /\ [][ (last'.op = "store" /\ last'.ok) =>
              /\ Repository_retrieve(repo', last'.id) = last'.ret
              /\ \A j \in MemoryIds \ {last'.id} : repo'[j] = repo[j]
              /\ Repository_get_all_ids(repo') =
                    Repository_get_all_ids(repo) \cup {last'.id}
              /\ Repository_total_tokens(repo') =
                    Repository_total_tokens(repo)
                    - (IF repo[last'.id] = None THEN 0 ELSE repo[last'.id].token_count)
                    + last'.ret.token_count ]_vars
    /\ []((last.op = "store" /\ last.ok) => Repository_store(repo, last.ret) = repo)

\* A store replaced the record of an existing id by a memory of another
\* token_count: one id is listed and only the new record is counted.
C19_Witness ==
    /\ last.op = "store"
    /\ last.ok
    /\ Len(log) = 2
    /\ log[1].id = log[2].id
    /\ log[1].token_count # log[2].token_count
    /\ Repository_get_all_ids(repo) = {last.id}
    /\ Repository_total_tokens(repo) = log[2].token_count

\* The memory that retrieve(id) returns in this state, None when absent.
Retrievable(c, r, id) ==
    IF c[id] # None THEN c[id] ELSE Repository_retrieve(r, id)

\* The memory that the latest successful store under this id returned.
LatestStored(id) ==
    log[CHOOSE k \in 1..Len(log) :
            /\ log[k].id = id
            /\ \A j \in (k + 1)..Len(log) : log[j].id # id]

\* C20: closing a durable store and reopening it on the same file keeps the
\* ids that get_all_ids returns and, for each of them, the content and the
\* token_count that retrieve returns; a retrieve served from the reopened
\* Repository returns what was stored.
C20_ReopenPreserves ==
    /\ [][ last'.op = "reopen" =>
              /\ Repository_get_all_ids(repo') = Repository_get_all_ids(repo)
              /\ \A id \in Repository_get_all_ids(repo) :
                    /\ Retrievable(cache', repo', id) # None
                    /\ Returned(Retrievable(cache', repo', id)) =
                         Returned(Retrievable(cache, repo, id)) ]_vars
    /\ []((Found(last) /\ ~last.hit) => Returned(last.ret) = LatestStored(last.id))
    /\ []((last.op = "get_all_ids" /\ last.ok) =>
             last.ret = { log[k].id : k \in 1..Len(log) })

\* After a reopen, a two-token memory was read back from the Repository
\* while the reopened store holds a second memory.
C20_Witness ==
    /\ backend = "sqlite"
    /\ Found(last)
    /\ ~last.hit
    /\ last.ret.token_count = 2
    /\ \E j \in MemoryIds \ {last.id} : repo[j] # None /\ cache[j] = None

\* ------------------------------------------------------------------------
\* Properties of the scorer and of context assembly (checked under SpecCtx)
\* ------------------------------------------------------------------------
ScoredDone == ctx_pc = "done" /\ ctx_req.op = "score_memories"

\* C21: score_memories returns the memories in non-increasing score order,
\* and memories of equal score in their input order (the k-th input memory
\* has id k).
C21_SortedStable ==
    ScoredDone =>
        \A i, j \in 1..Len(ctx_out) :
            i < j =>
                /\ ~f_lt(ctx_out[i].score, ctx_out[j].score)
                /\ ctx_out[i].score = ctx_out[j].score =>
                      ctx_out[i].memory.id < ctx_out[j].memory.id

\* The second input memory was moved to the front, and the first and third,
\* of equal score, kept their order behind it.
C21_Witness ==
    /\ ScoredDone
    /\ Len(ctx_out) = 3
    /\ ctx_out[1].memory.id = 2
    /\ ctx_out[2].memory.id = 1
    /\ ctx_out[3].memory.id = 3
    /\ f_lt(ctx_out[2].score, ctx_out[1].score)
    /\ ctx_out[2].score = ctx_out[3].score

\* C22: every score that score_memories produces is a number in [0.0, 1.0],
\* never NaN or infinite, whatever the corpus, mode, metadata and query.
C22_ScoreBounds ==
    ScoredDone =>
        \A k \in 1..Len(ctx_out) :
            /\ ctx_out[k].score.kind = "num"
            /\ ctx_out[k].score.v >= 0
            /\ ctx_out[k].score.v <= Scale

\* Without a query, a memory last accessed one day after the scorer's
\* clock (1 + age / 24h = 0, the recency is 1 / 0) got the score 1.0, next
\* to a memory of empty content.
C22_Witness ==
    /\ ScoredDone
    /\ ctx_req.query = <<>>
    /\ \E k \in 1..Len(ctx_out) :
          /\ ctx_out[k].memory.last_accessed = ScoreClock + 1
          /\ ctx_out[k].memory.content = <<>>
          /\ ctx_out[k].score = Num(Scale)
    /\ \E k \in 1..Len(ctx_out) : ctx_out[k].memory.last_accessed > ScoreClock + 1

ContextDone ==
    /\ ctx_pc = "done"
    /\ ctx_req.op \in {"get_context", "get_memory_bank_context"}
    /\ ctx_out.ok

\* Where the content of the k-th selected memory starts in the context text.
RECURSIVE OffsetOf(_, _)
OffsetOf(selected, k) ==
    IF k = 1 THEN 0
    ELSE OffsetOf(selected, k - 1) + Len(selected[k - 1].memory.content) + 2

\* C23: the response of a context request reports the sum of token_count
\* over the optimizer's output and the score of its first memory (0 when it
\* is empty); the context text holds the contents, each followed by a blank
\* line, and the provenance list one entry per selected memory, both in
\* optimizer output order.
C23_ContextReport ==
    ContextDone =>
        LET selected == ctx_out.selected
            n == Len(selected)
        IN  /\ ctx_out.token_count =
                  SumOver([k \in 1..n |-> selected[k].memory.token_count], 1..n)
            /\ ctx_out.relevance_score = (IF n = 0 THEN 0 ELSE selected[1].score)
            /\ Len(ctx_out.sources) = n
            /\ \A k \in 1..n :
                  /\ ctx_out.sources[k].source_id = selected[k].memory.id
                  /\ ctx_out.sources[k].relevance = selected[k].score
                  /\ SubSeq(ctx_out.context, OffsetOf(selected, k) + 1,
                            OffsetOf(selected, k) + Len(selected[k].memory.content) + 2)
                       = selected[k].memory.content \o <<"\n", "\n">>
            /\ Len(ctx_out.context) = OffsetOf(selected, n + 1)

\* Two memories of different scores were selected, the second input memory
\* first.
C23_Witness ==
    /\ ContextDone
    /\ Len(ctx_out.selected) = 2
    /\ ctx_out.selected[1].memory.id = 2
    /\ ctx_out.selected[1].score > ctx_out.selected[2].score
    /\ ctx_out.token_count = 3
    /\ Len(ctx_mem) = 3

\* ------------------------------------------------------------------------
\* Properties of the Tokenizer (checked under SpecTok)
\* ------------------------------------------------------------------------
\* The model files of the tokenizer type asked for are missing or corrupt.
Unavailable(tokenizer_type, fs) ==
    \/ /\ tokenizer_type = "Gpt2"
       /\ (~fs.vocab \/ ~fs.merges \/ fs.gpt2 \in {"missing", "corrupt"})
    \/ /\ tokenizer_type = "Cl100k"
       /\ fs.cl100k \in {"missing", "corrupt"}

\* C24: constructing a model-backed tokenizer whose model files are missing
\* or corrupt succeeds, and its count_tokens answers with the length
\* heuristic.
C24_NeverSurfaces ==
    (tok_pc \in {"built", "done"} /\ Unavailable(tok_in.type, tok_in.fs)) =>
        /\ tok.ok
        /\ tok_pc = "done" => tok_out.fallback

FellBack == tok_pc = "done" /\ tok_out.fallback

\* f32::round of a quarter of n: halves round away from zero.
RoundQuarter(n) == (n + 2) \div 4

\* C25 as stated: the fallback returns max(1, round(char_length * 0.25)).
C25_RoundedCharLength ==
    FellBack => tok_out.count = usize_max(1, RoundQuarter(char_length(tok_in.text)))

\* C25: the fallback returns at least 1: the larger of 1 and a quarter of
\* the length in bytes with the fraction dropped, the length being rounded
\* to an f32 first when it is 2^24 or more.
C25_TruncatedByteLength ==
    FellBack =>
        LET n == str_len(tok_in.text)
        IN  /\ tok_out.count >= 1
            /\ n < F32Mantissa => tok_out.count = usize_max(1, n \div 4)
            /\ n >= F32Mantissa => tok_out.count \in {n \div 4, n \div 4 + 1}

\* The fallback answered 1 for a text of six one-byte characters, a quarter
\* of which is 1.5.
C25_Witness ==
    /\ FellBack
    /\ char_length(tok_in.text) = 6
    /\ str_len(tok_in.text) = 6
    /\ tok_out.count = 1

\* ------------------------------------------------------------------------
\* Properties of the configuration (checked under SpecCfg)
\* ------------------------------------------------------------------------
\* new_with_config was called, with a store that opens, on a configuration
\* file that is missing or malformed.
LoadedBadFile ==
    /\ cfg_pc = "built"
    /\ cfg_env.store_ok
    /\ (cfg_env.file = None \/ ~WellFormed(cfg_env.file))

C27_AccessorDefaults ==
    (cfg_pc = "built" /\ cfg_out # <<>>) =>
        LET categories == cfg.memory_bank_config.categories
            known == cfg_out.category \in DOMAIN categories
        IN  /\ cfg_out.op = "get_max_tokens" =>
                  cfg_out.ret = (IF known THEN categories[cfg_out.category].max_tokens
                                          ELSE 1000)
            /\ cfg_out.op = "get_priority" =>
                  cfg_out.ret = (IF known THEN categories[cfg_out.category].priority
                                          ELSE "Medium")

\* A configuration loaded from the file, with categories of its own, was
\* asked for a category it does not have.
C27_Witness ==
    /\ cfg_pc = "built"
    /\ cfg_out # <<>>
    /\ cfg_out.op = "get_max_tokens"
    /\ cfg_out.category = "pattern"
    /\ cfg_out.ret = 1000
    /\ "custom" \in DOMAIN cfg.memory_bank_config.categories

\* ------------------------------------------------------------------------
\* Properties of the BackupManager (checked under SpecBak)
\* ------------------------------------------------------------------------
\* The create_backup calls of the caller that returned the path.
CallerBackups(path) ==
    { i \in 1..Len(bak_made) : bak_made[i].by = "caller" /\ bak_made[i].path = path }

\* What the source held at the latest of them.
SourceAtBackup(path) ==
    bak_made[CHOOSE i \in CallerBackups(path) : \A j \in CallerBackups(path) : j <= i].content

\* C28: restore_backup of a backup that create_backup returned and that
\* is in place with the content the source had when it was created
\* succeeds, leaves the target with that content, and leaves the backup in
\* place with that content, whatever was done to the target since.
C28_RestoreRoundTrip ==
    [][(/\ bak_last'.op = "restore_backup"
        /\ CallerBackups(bak_last'.ret) # {}
        /\ bak_dir[bak_last'.ret] = SourceAtBackup(bak_last'.ret))
       => /\ bak_last'.ok
          /\ bak_target' = SourceAtBackup(bak_last'.ret)
          /\ bak_dir'[bak_last'.ret] = SourceAtBackup(bak_last'.ret)]_vars

Min(a, b) == IF a <= b THEN a ELSE b

\* C29: after n create_backup calls and nothing else that writes the
\* backup directory, list_backups returns min(n, max_backups) backups in
\* strictly decreasing timestamp order, those of the latest calls.
C29_ListAfterRotation ==
    (bak_last.op = "list_backups" /\ \A i \in 1..Len(bak_made) : bak_made[i].by = "caller") =>
        LET n == Len(bak_made)
            m == Min(n, bak_max)
            listed == bak_last.ret
        IN  /\ Len(listed) = m
            /\ \A i \in 1..(Len(listed) - 1) : listed[i] > listed[i + 1]
            /\ \A i \in 1..Len(listed) : listed[i] = bak_made[n + 1 - i].path

\* C37: when restore_backup(backup, target) returns an error, the target
\* file still exists with the content it had before the call; a failed
\* restore never leaves the target missing or partially written.
C37_FailedRestoreKeepsTarget ==
    [][ (bak_last'.op = "restore_backup" /\ ~bak_last'.ok /\ bak_target # None)
            => bak_target' = bak_target ]_vars

\* ------------------------------------------------------------------------
\* Properties of the CrashRecoveryManager (checked under SpecCr)
\* ------------------------------------------------------------------------
RecordCrashCounts ==
    cr_last'.op = "record_crash" =>
        cr_state'.crash_count = cr_state.crash_count + 1

ResetClears ==
    cr_last'.op = "reset_crash_count" =>
        /\ cr_state'.crash_count = 0
        /\ cr_state'.recovery_attempts = 0
        /\ ~cr_state'.safe_mode

\* C30: from a fresh recovery state, safe mode is enabled exactly when
\* crash_count >= 3; every record_crash adds one to crash_count, whether or
\* not the state could be saved, and every reset_crash_count sets
\* crash_count and recovery_attempts to 0 and disables safe mode.
C30_SafeModeThreshold ==
    /\ [](cr_state.safe_mode <=> cr_state.crash_count >= 3)
    /\ [][RecordCrashCounts /\ ResetClears]_vars

\* The third crash in a row was recorded after a recovery attempt, safe
\* mode is on, and the state could not be saved.
C30_Witness ==
    /\ cr_last.op = "record_crash"
    /\ ~cr_last.ok
    /\ cr_state.crash_count = 3
    /\ cr_state.recovery_attempts = 1
    /\ cr_state.safe_mode
    /\ cr_file # cr_state

\* ------------------------------------------------------------------------
\* Properties of score_memories, continued (checked under SpecCtx)
\* ------------------------------------------------------------------------
\* C36: for every input list, mode and optional query, score_memories
\* returns exactly one ScoredMemory per input memory: the output is a
\* permutation of the input, each memory paired with its own score.
C36_ScoredPermutation ==
    ScoredDone =>
        /\ Len(ctx_out) = Len(ctx_mem)
        /\ \A k \in 1..Len(ctx_mem) :
              LET at == { j \in 1..Len(ctx_out) : ctx_out[j].memory = ctx_mem[k] } IN
              /\ Cardinality(at) = 1
              /\ \A j \in at :
                    ctx_out[j].score =
                        calculate_tf_idf(ctx_mem[k], ctx_req.mode, ctx_req.query, ctx_mem)

\* Three memories were scored with a query; the first of the input is not
\* the first of the output, and two of them got the same score.
C36_Witness ==
    /\ ScoredDone
    /\ Len(ctx_mem) = 3
    /\ ctx_req.query # <<>>
    /\ ctx_out[1].memory # ctx_mem[1]
    /\ \E i, j \in 1..3 : i # j /\ ctx_out[i].score = ctx_out[j].score

\* ------------------------------------------------------------------------
\* Properties of context assembly on a MemoryStore (checked under SpecAsm)
\* ------------------------------------------------------------------------
AssembledOk ==
    last.op \in {"get_context", "get_memory_bank_context"} /\ last.ok

\* C35: a context-assembly request calls retrieve on every id that
\* get_all_ids returned before it scores, so after a request that returned
\* Ok every memory that was cached when the request started has
\* last_accessed >= the start time of the request, whether or not it passed
\* the filters or was selected into the context.
C35_RequestTouchesCached ==
    AssembledOk =>
        \A id \in last.cached :
            /\ cache[id] # None
            /\ cache[id].last_accessed >= last.t0

\* A get_memory_bank_context request that started at clock 1 with two
\* memories cached, both last accessed at clock 0, returned Ok; one of the
\* two did not pass the category filter, the other was selected.
C35_Witness ==
    /\ AssembledOk
    /\ last.op = "get_memory_bank_context"
    /\ last.t0 = 1
    /\ last.categories = {"context"}
    /\ Cardinality(last.older) = 2
    /\ Cardinality(last.selected) = 1
    /\ \E id \in last.older \ last.selected :
          /\ cache[id].category = <<>>
          /\ cache[id].last_accessed = 1

\* ------------------------------------------------------------------------
\* Properties of the cache of MemoryStore
\* ------------------------------------------------------------------------
\* C31: every id present in the cache is also present in the Repository,
\* and the cached copy agrees with the Repository's record on content and
\* token_count (checked under SpecConc; under Spec for sequential calls).
C31_CacheAgreesWithRepository ==
    \A id \in MemoryIds :
        cache[id] # None =>
            LET record == Repository_retrieve(repo, id) IN
            /\ record # None
            /\ record.content = cache[id].content
            /\ record.token_count = cache[id].token_count

\* A step of a retrieve call keeps or advances the last_accessed of every
\* cached entry.
RetrieveKeepsCacheTime ==
    \A t \in Threads :
        (loc[t].op = "retrieve" /\ pc'[t] # pc[t]) =>
            \A id \in MemoryIds :
                (cache[id] # None /\ cache'[id] # None) =>
                    cache'[id].last_accessed >= cache[id].last_accessed

\* C32: under any interleaving of retrieve calls on one id, including calls
\* that miss the cache and insert the copy they read from the Repository,
\* the last_accessed held in the cache for the id never decreases (checked
\* under SpecConc).
C32_CacheTimeMonotonic == [][RetrieveKeepsCacheTime]_vars

\* C34: a retrieve that returns a storage error leaves the cache exactly as
\* it was before the call; when the Repository touch fails on a cache hit,
\* the cached entry's last_accessed is not advanced (checked under Spec).
C34_FailedRetrieveKeepsCache ==
    [][ (last'.op = "retrieve" /\ ~last'.ok) => cache' = cache ]_vars

\* ------------------------------------------------------------------------
\* Lock order and progress of MemoryStore (checked under SpecConcFair)
\* ------------------------------------------------------------------------
WantsCache(t) ==
    pc[t] \in {"store_cache_lock", "retrieve_cache_lock", "retrieve_insert_lock"}

WantsRepo(t) ==
    pc[t] \in {"store_repo_lock", "retrieve_touch_lock", "retrieve_read_lock",
               "read_lock"}

InCall(t) == pc[t] \notin {"idle", "returned"}

\* Thread t's next step is not blocked by a lock another thread holds.
CanStep(t) ==
    /\ WantsCache(t) => cache_lock = 0
    /\ WantsRepo(t) => repo_lock = 0

\* A thread that locks the cache does not hold the Repository's lock, and
\* the holder of the Repository's lock waits for no lock.
LockOrder ==
    /\ \A t \in Threads : WantsCache(t) => repo_lock # t
    /\ \A t \in Threads : repo_lock = t => (InCall(t) /\ ~WantsCache(t) /\ ~WantsRepo(t))
    /\ \A t \in Threads : cache_lock = t => (InCall(t) /\ ~WantsCache(t))

\* While calls are in progress, one of them can take its next step.
NoDeadlock ==
    (\E t \in Threads : InCall(t)) => \E t \in Threads : InCall(t) /\ CanStep(t)

PerformRecoveryCounts ==
    cr_last'.op = "perform_recovery" =>
        IF cr_state.recovery_attempts >= cr_max
        THEN /\ ~cr_last'.ok
             /\ cr_last'.err = TooMany
             /\ cr_state' = cr_state
             /\ cr_file' = cr_file
        ELSE /\ cr_last'.err # TooMany
             /\ cr_state'.recovery_attempts = cr_state.recovery_attempts + 1

\* C39: perform_recovery returns the "Too many recovery attempts" error
\* without changing the recovery state whenever recovery_attempts >=
\* max_recovery_attempts, and otherwise adds exactly one to
\* recovery_attempts; between two reset_crash_count calls at most
\* max_recovery_attempts recoveries are attempted.
C39_RecoveryAttemptsCapped ==
    /\ [](cr_tried <= cr_max)
    /\ [][PerformRecoveryCounts]_vars

\* With the max_recovery_attempts that new sets, three recoveries were
\* attempted since the last reset and the fourth was refused.
C39_Witness ==
    /\ cr_max = 3
    /\ cr_tried = 3
    /\ cr_state.recovery_attempts = 3
    /\ cr_last.op = "perform_recovery"
    /\ cr_last.err = TooMany

\* ------------------------------------------------------------------------
\* Termination of main (checked under SpecMain)
\* ------------------------------------------------------------------------
\* C38: once the server has received an interrupt signal, or serve has
\* returned, main eventually returns and the process terminates, also when
\* the monitor thread was started and the parent process stays alive.
C38_MainReturns ==
    (m_sig # "none" \/ m_state \in {"stopped", "crash"}) ~> m_pc = "returned"

====
